---- MODULE Spec2Model ----
(***************************************************************************)
(* Verification model of the 2020 YtaRobot drivetrain core:                *)
(*   - TalonMotorGroup (TalonMotorGroup.hpp / TalonMotorGroup.cpp)         *)
(*   - YtaRobot::DriveControlSequence / DirectionalInch / DirectionalAlign *)
(*     (YtaRobot.cpp)                                                      *)
(*   - YtaRobot::TurretSequence (YtaRobot.cpp)                             *)
(*   - YtaRobot::AutonomousGyroLeftTurn / RightTurn (AutonomousGyro.cpp)   *)
(* Motor values and seconds (doubles in the source) are integers counting  *)
(* hundredths (0.6 is 60); headings and POV angles are integer degrees.    *)
(***************************************************************************)
EXTENDS Integers, Sequences, FiniteSets, TLC

VARIABLES
    \* ---- TalonMotorGroup object ----
    constructed,        \* FALSE before the constructor has run
    m_NumMotors,        \* TalonMotorGroup::m_NumMotors
    m_MasterCanId,      \* TalonMotorGroup::m_MasterCanId
    m_Sensor,           \* TalonMotorGroup::m_Sensor
    m_pMotorsInfo,      \* constructed MotorInfo objects, in array order
    issued,             \* TalonSRX::Set() calls made by the last operation, in order
    lastOp,             \* the last operation: its name, arguments and result
    halted,             \* the program crashed in an out-of-bounds access
    nCalls,             \* number of calls made on the group since construction
    talonConfig,        \* per constructed controller: neutral mode and selected sensor
    sensorPosition,     \* position of the selected sensor of the first controller
    configCalls,        \* configuration and sensor calls made by the last operation
    \* ---- YtaRobot drive control ----
    robotMode,                  \* mode the scheduler runs the robot in
    m_RobotDriveState,          \* YtaRobot::m_RobotDriveState
    lastPovValue,               \* static in DirectionalAlign
    bStateChangeAllowed,        \* static in DirectionalAlign
    destinationAngle,           \* static in DirectionalAlign
    m_pDirectionalAlignTimer,   \* frc::Timer: running flag and value
    m_pInchingDriveTimer,       \* frc::Timer: running flag and value
    leftDrive,                  \* last value Set() on m_pLeftDriveMotors
    rightDrive,                 \* last value Set() on m_pRightDriveMotors
    driveLog,                   \* Set() calls on the drive groups by the last handler
    tick,                       \* what the last handler read and decided
    event,                      \* the last handler that ran
    \* ---- RobotUtils ----
    util,                       \* the last call of Trim or Limit: arguments and results
    \* ---- calls followed statement by statement ----
    inchCall,                   \* a call of DirectionalInch: position, speeds, timer
    manualCall,                 \* joystick conditioning of one pass: inputs and results
    turretCall,                 \* the last call of TurretSequence: readings and Set() calls
    turnCall                    \* a call of AutonomousGyroLeftTurn / RightTurn: position,
                                \* safety timer, robot mode, Set() calls and result

groupVars == <<constructed, m_NumMotors, m_MasterCanId, m_Sensor,
               m_pMotorsInfo, issued, lastOp, halted, nCalls,
               talonConfig, sensorPosition, configCalls>>

driveVars == <<robotMode, m_RobotDriveState, lastPovValue, bStateChangeAllowed,
               destinationAngle, m_pDirectionalAlignTimer, m_pInchingDriveTimer,
               leftDrive, rightDrive, driveLog, tick, event>>

callVars == <<inchCall, manualCall, turretCall, turnCall>>

utilVars == <<util, callVars>>

vars == <<groupVars, driveVars, utilVars>>

----
\* ===================== TalonMotorGroup =====================

MAX_NUMBER_OF_MOTORS == 4
FEEDBACK_DEVICE_NONE == 255

\* FeedbackDevice::CTRE_MagEncoder_Relative (an alias of QuadEncoder) and
\* FeedbackDevice::Analog, of the CTRE Phoenix library
CTRE_MagEncoder_Relative == 0
Analog == 2

\* enum MotorGroupControlMode
MASTER             == "MASTER"
FOLLOW             == "FOLLOW"
INDEPENDENT        == "INDEPENDENT"
INVERSE            == "INVERSE"
INDEPENDENT_OFFSET == "INDEPENDENT_OFFSET"
INVERSE_OFFSET     == "INVERSE_OFFSET"
CUSTOM             == "CUSTOM"

MotorGroupControlMode ==
    {MASTER, FOLLOW, INDEPENDENT, INVERSE, INDEPENDENT_OFFSET, INVERSE_OFFSET, CUSTOM}

\* ---- bounds of the model ----
\* largest numMotors handed to the constructor (above the capacity on purpose)
MaxCount == 5
\* number of calls made on a group after its construction
MaxCalls == 3
\* CAN id handed to the constructor
MasterIds == {10}
\* arguments of Set(), in hundredths
SetValues == {-30, 60}
SetOffsets == {0, 20}
\* sensor handed to the constructor where only the control modes are exercised
\* (the constructor's default argument; no mode method reads m_Sensor)
Sensors == {FEEDBACK_DEVICE_NONE}
\* sensor kinds handed to the constructor where the encoder methods are called
AllSensors == {FEEDBACK_DEVICE_NONE, CTRE_MagEncoder_Relative, Analog}
\* positions the selected sensor of the first controller can be turned to
SensorPositions == {-3, 0, 5}

Min(a, b) == IF a < b THEN a ELSE b

\* A TalonSRX as the group sees it: the control mode of the last Set() call
\* it received ("None" while it never received one) and, for a follower
\* link, the CAN id it follows.  Percent-output demands are in `issued'.
NewTalon == [ctrl |-> "None", follows |-> 0]

\* struct MotorInfo and its constructor
MotorInfo(controlMode, canId) ==
    [m_pTalonSrx |-> NewTalon, m_ControlMode |-> controlMode, m_CanId |-> canId]

\* the follower link made to the controller's own CAN id
TalonFollow_Self(info, masterId) ==
    [info EXCEPT !.m_pTalonSrx = [ctrl |-> "Follower", follows |-> info.m_CanId]]

\* TalonSRX::Set(ControlMode::Follower, masterCanId) on one MotorInfo
TalonFollow(info, masterId) ==
    [info EXCEPT !.m_pTalonSrx = [ctrl |-> "Follower", follows |-> masterId]]

\* TalonSRX::Set(ControlMode::PercentOutput, v) on one MotorInfo
TalonPercent(info) ==
    [info EXCEPT !.m_pTalonSrx = [ctrl |-> "PercentOutput", follows |-> 0]]

\* a TalonSRX as constructed: neutral mode as stored in the controller, no
\* feedback sensor selected by this object
NewTalonConfig == [neutral |-> "EEPROMSetting", sensor |-> FEEDBACK_DEVICE_NONE]

\* TalonSRX::SetNeutralMode, ConfigSelectedFeedbackSensor,
\* SetSelectedSensorPosition and GetSelectedSensorPosition as logged calls
NeutralCall(canId, mode) == [canId |-> canId, call |-> "SetNeutralMode", arg |-> mode]
SensorCall(canId, call, arg) == [canId |-> canId, call |-> call, arg |-> arg]

FollowCmd(canId, masterId) == [canId |-> canId, ctrl |-> "Follower", demand |-> masterId]
PercentCmd(canId, v)       == [canId |-> canId, ctrl |-> "PercentOutput", demand |-> v]

\* number of array slots the loops over m_NumMotors can legally touch
Constructed == Len(m_pMotorsInfo)
Iterated == Min(m_NumMotors, Constructed)
\* a loop bounded by m_NumMotors runs past the end of m_pMotorsInfo[4]
Overrun == m_NumMotors > MAX_NUMBER_OF_MOTORS

\* Reading m_pMotorsInfo[i] with i >= MAX_NUMBER_OF_MOTORS is undefined: the
\* garbage pointer either faults (the program dies) or the access has no
\* effect on the group.
OverrunOutcome == IF Overrun THEN halted' \in BOOLEAN ELSE halted' = FALSE

\* one slot of the constructor's loop (i is the 0-based loop index)
CtorEntry(i, masterCanId, nonMasterControlMode) ==
    IF i = 0
    THEN MotorInfo(MASTER, masterCanId)
    ELSE IF nonMasterControlMode = FOLLOW
         THEN TalonFollow(MotorInfo(nonMasterControlMode, masterCanId + i), masterCanId)
         ELSE MotorInfo(nonMasterControlMode, masterCanId + i)

\* TalonMotorGroup::TalonMotorGroup
TalonMotorGroup(numMotors, masterCanId, nonMasterControlMode, sensor) ==
    /\ ~constructed
    /\ constructed' = TRUE
    /\ m_NumMotors' = numMotors
    /\ m_MasterCanId' = masterCanId
    /\ m_Sensor' = sensor
    /\ m_pMotorsInfo' =
          [k \in 1..Min(numMotors, MAX_NUMBER_OF_MOTORS) |->
              CtorEntry(k - 1, masterCanId, nonMasterControlMode)]
    /\ issued' =
          LET followers ==
                 [k \in 1..(Min(numMotors, MAX_NUMBER_OF_MOTORS) - 1) |->
                     FollowCmd(masterCanId + k, masterCanId)]
          IN IF nonMasterControlMode = FOLLOW THEN followers ELSE <<>>
    /\ lastOp' = [op |-> "Create", mode |-> nonMasterControlMode, canId |-> masterCanId,
                  value |-> numMotors, offset |-> 0, result |-> TRUE]
    /\ halted' = FALSE
    /\ nCalls' = 0
    /\ talonConfig' =
          [k \in 1..Min(numMotors, MAX_NUMBER_OF_MOTORS) |->
              [neutral |-> "Coast",
               sensor |-> IF k = 1 THEN sensor ELSE FEEDBACK_DEVICE_NONE]]
    /\ configCalls' =
          (IF sensor # FEEDBACK_DEVICE_NONE
           THEN <<SensorCall(masterCanId, "ConfigSelectedFeedbackSensor", sensor)>>
           ELSE <<>>)
          \o [k \in 1..Min(numMotors, MAX_NUMBER_OF_MOTORS) |->
                 NeutralCall(masterCanId + (k - 1), "Coast")]
    /\ UNCHANGED sensorPosition

\* AddMotorToGroup with the capacity check off by one
HasRoom_OffByOne == m_NumMotors <= MAX_NUMBER_OF_MOTORS

\* AddMotorToGroup: make sure there's room for another motor in this group
HasRoom == m_NumMotors < MAX_NUMBER_OF_MOTORS

\* the new CAN id counted from the entries after the first
NewMotorCanId_SkipsOne == m_pMotorsInfo[1].m_CanId + m_NumMotors + 1

\* AddMotorToGroup: the new motor CAN ID is the first motor's ID + current
\* number of group motors present
NewMotorCanId == m_pMotorsInfo[1].m_CanId + m_NumMotors

\* TalonMotorGroup::AddMotorToGroup
AddMotorToGroup(controlMode) ==
    /\ constructed /\ ~halted
    /\ IF HasRoom
       THEN LET newMotorCanId == NewMotorCanId
                info == MotorInfo(controlMode, newMotorCanId)
            IN /\ m_pMotorsInfo' =
                     Append(m_pMotorsInfo,
                            IF controlMode = FOLLOW
                            THEN TalonFollow(info, m_MasterCanId) ELSE info)
               /\ issued' = IF controlMode = FOLLOW
                            THEN <<FollowCmd(newMotorCanId, m_MasterCanId)>> ELSE <<>>
               /\ m_NumMotors' = m_NumMotors + 1
               /\ talonConfig' = Append(talonConfig, NewTalonConfig)
               /\ lastOp' = [op |-> "Add", mode |-> controlMode, canId |-> 0,
                             value |-> 0, offset |-> 0, result |-> TRUE]
       ELSE /\ UNCHANGED <<m_pMotorsInfo, m_NumMotors, talonConfig>>
            /\ issued' = <<>>
            /\ lastOp' = [op |-> "Add", mode |-> controlMode, canId |-> 0,
                          value |-> 0, offset |-> 0, result |-> FALSE]
    /\ configCalls' = <<>>
    /\ UNCHANGED <<constructed, m_MasterCanId, m_Sensor, halted, sensorPosition>>

\* TalonMotorGroup::SetMotorInGroupControlMode
SetMotorInGroupControlMode(canId, controlMode) ==
    /\ constructed /\ ~halted
    /\ LET hit(i) == i <= Iterated /\ m_pMotorsInfo[i].m_CanId = canId
           matches == {i \in 1..Constructed : hit(i)}
       IN /\ m_pMotorsInfo' =
                [i \in 1..Constructed |->
                    IF hit(i)
                    THEN LET e == [m_pMotorsInfo[i] EXCEPT !.m_ControlMode = controlMode]
                         IN IF controlMode = FOLLOW THEN TalonFollow(e, m_MasterCanId) ELSE e
                    ELSE m_pMotorsInfo[i]]
          /\ issued' = IF controlMode = FOLLOW /\ matches # {}
                       THEN <<FollowCmd(canId, m_MasterCanId)>> ELSE <<>>
          /\ lastOp' = [op |-> "SetMode", mode |-> controlMode, canId |-> canId,
                        value |-> 0, offset |-> 0, result |-> (matches # {})]
    /\ OverrunOutcome
    /\ configCalls' = <<>>
    /\ UNCHANGED <<constructed, m_NumMotors, m_MasterCanId, m_Sensor,
                   talonConfig, sensorPosition>>

\* the switch of Set() with the offset applied after the negation
ValueToSet_OffsetAfterNegation(controlMode, value, offset) ==
    CASE controlMode \in {MASTER, INDEPENDENT} -> value
      [] controlMode = FOLLOW                  -> 0
      [] controlMode = INVERSE                 -> -value
      [] controlMode = INDEPENDENT_OFFSET      -> value + offset
      [] controlMode = INVERSE_OFFSET          -> (-value) + offset
      [] OTHER                                 -> 0

\* the switch of Set() with the default case falling into the master's case
ValueToSet_DefaultAsMaster(controlMode, value, offset) ==
    CASE controlMode = FOLLOW                  -> 0
      [] controlMode = INVERSE                 -> -value
      [] controlMode = INDEPENDENT_OFFSET      -> value + offset
      [] controlMode = INVERSE_OFFSET          -> -(value + offset)
      [] OTHER                                 -> value

\* TalonMotorGroup::Set, the switch: the value that will be passed to Set()
ValueToSet(controlMode, value, offset) ==
    CASE controlMode \in {MASTER, INDEPENDENT} -> value
      [] controlMode = FOLLOW                  -> 0
      [] controlMode = INVERSE                 -> -value
      [] controlMode = INDEPENDENT_OFFSET      -> value + offset
      [] controlMode = INVERSE_OFFSET          -> -(value + offset)
      [] OTHER                                 -> 0

\* the switch of Set() with the FOLLOW case not clearing bCallSet
CallSet_Always(controlMode) == TRUE

\* TalonMotorGroup::Set, the switch: bCallSet
CallSet(controlMode) == controlMode # FOLLOW

\* the PercentOutput calls of one pass of the loop in Set(), entries 1..n
RECURSIVE SetCalls(_, _, _, _)
SetCalls(infos, n, value, offset) ==
    IF n = 0 THEN <<>>
    ELSE LET rest == SetCalls(infos, n - 1, value, offset)
             e == infos[n]
         IN IF CallSet(e.m_ControlMode)
            THEN Append(rest, PercentCmd(e.m_CanId, ValueToSet(e.m_ControlMode, value, offset)))
            ELSE rest

\* TalonMotorGroup::Set
Set(value, offset) ==
    /\ constructed /\ ~halted
    /\ issued' = SetCalls(m_pMotorsInfo, Iterated, value, offset)
    /\ m_pMotorsInfo' =
          [i \in 1..Constructed |->
              IF i <= Iterated /\ CallSet(m_pMotorsInfo[i].m_ControlMode)
              THEN TalonPercent(m_pMotorsInfo[i]) ELSE m_pMotorsInfo[i]]
    /\ lastOp' = [op |-> "Set", mode |-> "", canId |-> 0,
                  value |-> value, offset |-> offset, result |-> TRUE]
    /\ OverrunOutcome
    /\ configCalls' = <<>>
    /\ UNCHANGED <<constructed, m_NumMotors, m_MasterCanId, m_Sensor,
                   talonConfig, sensorPosition>>

\* the neutral-mode loop reaching only the first controller
NeutralLoop_FirstOnly(mode) ==
    [k \in 1..Constructed |->
        IF k = 1 THEN [talonConfig[k] EXCEPT !.neutral = mode] ELSE talonConfig[k]]

\* SetCoastMode / SetBrakeMode: the loop over the motors of the group
NeutralLoop(mode) ==
    [k \in 1..Constructed |->
        IF k <= Iterated THEN [talonConfig[k] EXCEPT !.neutral = mode] ELSE talonConfig[k]]

\* the body shared by SetCoastMode and SetBrakeMode
SetNeutralMode(op, mode) ==
    /\ constructed /\ ~halted
    /\ talonConfig' = NeutralLoop(mode)
    /\ configCalls' =
          [k \in 1..Iterated |-> NeutralCall(m_pMotorsInfo[k].m_CanId, mode)]
    /\ issued' = <<>>
    /\ lastOp' = [op |-> op, mode |-> mode, canId |-> 0,
                  value |-> 0, offset |-> 0, result |-> TRUE]
    /\ OverrunOutcome
    /\ UNCHANGED <<constructed, m_NumMotors, m_MasterCanId, m_Sensor,
                   m_pMotorsInfo, sensorPosition>>

\* TalonMotorGroup::SetCoastMode
SetCoastMode == SetNeutralMode("SetCoastMode", "Coast")

\* TalonMotorGroup::SetBrakeMode
SetBrakeMode == SetNeutralMode("SetBrakeMode", "Brake")

\* TareEncoder / GetEncoderValue: the sensor kind the methods act on
UsesEncoder == m_Sensor = CTRE_MagEncoder_Relative

\* TalonMotorGroup::TareEncoder
TareEncoder ==
    /\ constructed /\ ~halted
    /\ IF UsesEncoder
       THEN /\ sensorPosition' = 0
            /\ configCalls' =
                  <<SensorCall(m_pMotorsInfo[1].m_CanId, "SetSelectedSensorPosition", 0)>>
       ELSE /\ UNCHANGED sensorPosition
            /\ configCalls' = <<>>
    /\ issued' = <<>>
    /\ lastOp' = [op |-> "TareEncoder", mode |-> "", canId |-> 0,
                  value |-> 0, offset |-> 0, result |-> TRUE]
    /\ UNCHANGED <<constructed, m_NumMotors, m_MasterCanId, m_Sensor,
                   m_pMotorsInfo, halted, talonConfig>>

\* TalonMotorGroup::GetEncoderValue; the value returned is lastOp.value
GetEncoderValue ==
    /\ constructed /\ ~halted
    /\ LET sensorValue == IF UsesEncoder THEN sensorPosition ELSE 0
       IN lastOp' = [op |-> "GetEncoderValue", mode |-> "", canId |-> 0,
                     value |-> sensorValue, offset |-> 0, result |-> TRUE]
    /\ configCalls' =
          IF UsesEncoder
          THEN <<SensorCall(m_pMotorsInfo[1].m_CanId, "GetSelectedSensorPosition", 0)>>
          ELSE <<>>
    /\ issued' = <<>>
    /\ UNCHANGED <<constructed, m_NumMotors, m_MasterCanId, m_Sensor,
                   m_pMotorsInfo, halted, talonConfig, sensorPosition>>

\* the shaft of the first motor turns: its sensor reports another position
EncoderTurns ==
    /\ constructed /\ ~halted
    /\ \E pos \in SensorPositions \ {sensorPosition} : sensorPosition' = pos
    /\ issued' = <<>>
    /\ configCalls' = <<>>
    /\ lastOp' = [op |-> "EncoderTurns", mode |-> "", canId |-> 0,
                  value |-> 0, offset |-> 0, result |-> TRUE]
    /\ UNCHANGED <<constructed, m_NumMotors, m_MasterCanId, m_Sensor,
                   m_pMotorsInfo, halted, nCalls, talonConfig>>

GroupInit ==
    /\ constructed = FALSE
    /\ m_NumMotors = 0
    /\ m_MasterCanId = 0
    /\ m_Sensor = FEEDBACK_DEVICE_NONE
    /\ m_pMotorsInfo = <<>>
    /\ issued = <<>>
    /\ lastOp = [op |-> "None", mode |-> "", canId |-> 0,
                 value |-> 0, offset |-> 0, result |-> TRUE]
    /\ halted = FALSE
    /\ nCalls = 0
    /\ talonConfig = <<>>
    /\ sensorPosition = 0
    /\ configCalls = <<>>

\* CAN ids a caller may pass to SetMotorInGroupControlMode (one is never in the group)
CallerCanIds == {m_MasterCanId + k : k \in 0..MAX_NUMBER_OF_MOTORS}

Create ==
    \E n \in 1..MaxCount, id \in MasterIds, m \in MotorGroupControlMode, s \in Sensors :
        TalonMotorGroup(n, id, m, s)
\* one more call on the constructed group
Call == nCalls < MaxCalls /\ nCalls' = nCalls + 1
AddEntry == Call /\ \E m \in MotorGroupControlMode : AddMotorToGroup(m)
SetEntryMode ==
    Call /\ \E id \in CallerCanIds, m \in MotorGroupControlMode :
                SetMotorInGroupControlMode(id, m)
SetGroup == Call /\ \E v \in SetValues, o \in SetOffsets : Set(v, o)

GroupNext ==
    \/ Create /\ UNCHANGED <<driveVars, utilVars>>
    \/ AddEntry /\ UNCHANGED <<driveVars, utilVars>>
    \/ SetEntryMode /\ UNCHANGED <<driveVars, utilVars>>
    \/ SetGroup /\ UNCHANGED <<driveVars, utilVars>>

\* construction with every sensor kind, and the calls of the neutral-mode
\* and encoder methods
CreateAnySensor ==
    \E n \in 1..MaxCount, id \in MasterIds, m \in MotorGroupControlMode, s \in AllSensors :
        TalonMotorGroup(n, id, m, s)
CoastGroup == Call /\ SetCoastMode
BrakeGroup == Call /\ SetBrakeMode
TareGroup == Call /\ TareEncoder
ReadEncoder == Call /\ GetEncoderValue

GroupServiceNext ==
    \/ CreateAnySensor /\ UNCHANGED <<driveVars, utilVars>>
    \/ AddEntry /\ UNCHANGED <<driveVars, utilVars>>
    \/ CoastGroup /\ UNCHANGED <<driveVars, utilVars>>
    \/ BrakeGroup /\ UNCHANGED <<driveVars, utilVars>>
    \/ TareGroup /\ UNCHANGED <<driveVars, utilVars>>
    \/ ReadEncoder /\ UNCHANGED <<driveVars, utilVars>>
    \/ EncoderTurns /\ UNCHANGED <<driveVars, utilVars>>

----
\* ===================== YtaRobot drive control =====================

\* enum RobotDriveState
MANUAL_CONTROL    == "MANUAL_CONTROL"
DIRECTIONAL_ALIGN == "DIRECTIONAL_ALIGN"

\* configuration constants of YtaRobot.hpp (motor values and seconds in hundredths)
OFF                           == 0
DIRECTIONAL_ALIGN_ENABLED     == TRUE
DIRECTIONAL_INCH_ENABLED      == TRUE
SLOW_DRIVE_ENABLED            == TRUE
USE_INVERTED_REVERSE_CONTROLS == TRUE
LEFT_DRIVE_FORWARD_SCALAR     == 1
LEFT_DRIVE_REVERSE_SCALAR     == -1
RIGHT_DRIVE_FORWARD_SCALAR    == -1
RIGHT_DRIVE_REVERSE_SCALAR    == 1
INCHING_DRIVE_SPEED           == 25
INCHING_DRIVE_DELAY_S         == 10
DIRECTIONAL_ALIGN_DRIVE_SPEED == 55
DIRECTIONAL_ALIGN_MAX_TIME_S  == 300
JOYSTICK_TRIM_UPPER_LIMIT     == 10
JOYSTICK_TRIM_LOWER_LIMIT     == -10
DRIVE_MOTOR_UPPER_LIMIT       == 100
DRIVE_MOTOR_LOWER_LIMIT       == -100
DRIVE_SLOW_THROTTLE_VALUE     == 50
ANGLE_90_DEGREES              == 90
ANGLE_180_DEGREES             == 180
ANGLE_360_DEGREES             == 360
POV_NORMALIZATION_ANGLE       == 45

\* ---- bounds of the model ----
\* time that passes in one step of the clock, in hundredths of a second
ClockStep == 100
\* GenericHID::GetPOV(): -1 when nothing is pressed, else one of 8 compass points
PovValues == {-1} \cup {45 * k : k \in 0..7}
Cardinals == {0, 90, 180, 270}
\* headings the gyro reports in the drive specification: around every cardinal
HeadingOffsets == {-1, 0, 1}
Headings == {(d + k + 360) % 360 : d \in Cardinals, k \in HeadingOffsets}
\* the four inching buttons; in the drive specification none or one of them
\* is pressed (every combination is pressed in the inching specification)
InchButtons == {"FORWARD", "BACKWARD", "LEFT", "RIGHT"}
ButtonSets == {{}} \cup {{b} : b \in InchButtons}
\* joystick readings <<x, y, slow x>> in the drive specification
JoystickInputs == {<<0, 0, 0>>, <<100, -100, 0>>, <<0, 100, 100>>, <<-100, 0, 0>>}
\* the readings of the specification with fairness: a press, another press and
\* a release; headings in, next to and far from the band of both destinations
FairPovValues == {-1, 0, 135}
FairHeadings == {359, 0, 1, 2, 179, 180, 181}
FairButtonSets == {{}, {"FORWARD"}}
FairJoystickInputs == {<<0, 0, 0>>, <<100, -100, 0>>}
\* no gyro reading was taken
NoRead == -1

Abs(n) == IF n < 0 THEN -n ELSE n

\* frc::Timer
NewTimer == [running |-> FALSE, t |-> 0]
TimerStart(tm) == [tm EXCEPT !.running = TRUE]
TimerStop(tm)  == [tm EXCEPT !.running = FALSE]
TimerReset(tm) == [tm EXCEPT !.t = 0]
TimerGet(tm)   == tm.t
\* the clock moves on: a running timer gains ClockStep (values beyond the
\* longest deadline are not told apart)
TimerAdvance(tm) ==
    IF tm.running /\ tm.t <= DIRECTIONAL_ALIGN_MAX_TIME_S
    THEN [tm EXCEPT !.t = tm.t + ClockStep] ELSE tm

\* one Set() call on a drive motor group
DriveCmd(path, side, v) == [path |-> path, side |-> side, value |-> v]
BothSides(path, l, r) == <<DriveCmd(path, "left", l), DriveCmd(path, "right", r)>>

\* the value a drive group holds after a sequence of Set() calls
RECURSIVE LastValue(_, _, _)
LastValue(log, side, old) ==
    IF log = <<>> THEN old
    ELSE IF log[Len(log)].side = side THEN log[Len(log)].value
         ELSE LastValue(SubSeq(log, 1, Len(log) - 1), side, old)

\* the latch following the level of the POV input instead of its edge
LatchUpdate_Level(povValue, last, latch) == povValue # -1

\* the latch set by the release of the POV input
LatchUpdate_ReleaseSets(povValue, last, latch) ==
    IF povValue # last
    THEN IF povValue = -1 THEN TRUE
         ELSE IF last = -1 THEN TRUE
         ELSE latch
    ELSE latch

\* the latch set by a change between two pressed POV values as well
LatchUpdate_ChangeSets(povValue, last, latch) ==
    IF povValue # last
    THEN IF povValue = -1 THEN FALSE ELSE TRUE
    ELSE latch

\* DirectionalAlign: update of bStateChangeAllowed from the POV change
LatchUpdate(povValue, last, latch) ==
    IF povValue # last
    THEN IF povValue = -1 THEN FALSE
         ELSE IF last = -1 THEN TRUE
         ELSE latch
    ELSE latch

\* the destination angle taken from the POV value as it is read
DestinationAngle_NoNormalization(pov) ==
    ANGLE_90_DEGREES * (pov \div ANGLE_90_DEGREES)

\* DirectionalAlign: destination angle from the POV value
DestinationAngle(pov) ==
    LET shifted == pov + POV_NORMALIZATION_ANGLE
        povValue == IF shifted >= ANGLE_360_DEGREES THEN shifted - ANGLE_360_DEGREES ELSE shifted
        degreeMultiplier == povValue \div ANGLE_90_DEGREES
    IN ANGLE_90_DEGREES * degreeMultiplier

\* the direction choice without the more-than-halfway inversion
TurnDirection_NoInversion(startingAngle, destination) ==
    [bTurnLeft  |-> (startingAngle - destination) > 0,
     bTurnRight |-> ~((startingAngle - destination) > 0)]

\* the direction choice inverted from exactly halfway round on
TurnDirection_InvertAtHalf(startingAngle, destination) ==
    LET left0 == (startingAngle - destination) > 0
        invert == Abs(startingAngle - destination) >= ANGLE_180_DEGREES
    IN [bTurnLeft  |-> IF invert THEN ~left0 ELSE left0,
        bTurnRight |-> IF invert THEN left0 ELSE ~left0]

\* DirectionalAlign: which way to turn
TurnDirection(startingAngle, destination) ==
    LET angleDistance == startingAngle - destination
        absValueAngleDistance == Abs(angleDistance)
        left0 == angleDistance > 0
        right0 == ~(angleDistance > 0)
        invert == absValueAngleDistance > ANGLE_180_DEGREES
    IN [bTurnLeft  |-> IF invert THEN ~left0 ELSE left0,
        bTurnRight |-> IF invert THEN ~right0 ELSE right0]

\* the turn commands given for a left turn only
TurnCmds_LeftOnly(dir) ==
    IF dir.bTurnLeft
    THEN BothSides("align", DIRECTIONAL_ALIGN_DRIVE_SPEED * LEFT_DRIVE_REVERSE_SCALAR,
                            DIRECTIONAL_ALIGN_DRIVE_SPEED * RIGHT_DRIVE_FORWARD_SCALAR)
    ELSE <<>>

\* DirectionalAlign: the Set() calls that start the turn
TurnCmds(dir) ==
    (IF dir.bTurnLeft
     THEN BothSides("align", DIRECTIONAL_ALIGN_DRIVE_SPEED * LEFT_DRIVE_REVERSE_SCALAR,
                             DIRECTIONAL_ALIGN_DRIVE_SPEED * RIGHT_DRIVE_FORWARD_SCALAR)
     ELSE <<>>)
    \o
    (IF dir.bTurnRight
     THEN BothSides("align", DIRECTIONAL_ALIGN_DRIVE_SPEED * LEFT_DRIVE_FORWARD_SCALAR,
                             DIRECTIONAL_ALIGN_DRIVE_SPEED * RIGHT_DRIVE_REVERSE_SCALAR)
     ELSE <<>>)

\* the band check with its lower bound on the wrong side of the destination
InBand_LowerBoundAbove(currentAngle, destination) ==
    (currentAngle >= (destination + 1)) /\ (currentAngle <= (destination + 1))

\* DirectionalAlign: the three conditions for stopping the align
InBand(currentAngle, destination) ==
    (currentAngle >= (destination - 1)) /\ (currentAngle <= (destination + 1))

\* the stop condition without the safety timer
TimedOut_Never(tm) == FALSE

TimedOut(tm) == TimerGet(tm) > DIRECTIONAL_ALIGN_MAX_TIME_S

\* the stop condition without the user's cancellation
AlignDone_NoCancel(currentAngle, destination, tm, latch) ==
    InBand(currentAngle, destination) \/ TimedOut(tm)

\* the stop condition taken on every call in DIRECTIONAL_ALIGN
AlignDone_Always(currentAngle, destination, tm, latch) == TRUE

AlignDone(currentAngle, destination, tm, latch) ==
    InBand(currentAngle, destination) \/ TimedOut(tm) \/ latch

\* the start of an align leaving bStateChangeAllowed as it found it
StartLatch_Kept(latch) == latch

\* DirectionalAlign, start of an align: a state change is not allowed until POV release
StartLatch(latch) == FALSE

\* the exit block leaving bStateChangeAllowed as it found it
ExitLatch_Kept(latch) == latch

\* DirectionalAlign, exit block: a state change is not allowed until POV release
ExitLatch(latch) == FALSE

\* DirectionalAlign reads the gyro when it starts an align and on every call
\* in DIRECTIONAL_ALIGN
ReadsGyro(pov) ==
    \/ m_RobotDriveState = DIRECTIONAL_ALIGN
    \/ LatchUpdate(pov, lastPovValue, bStateChangeAllowed)

\* YtaRobot::DirectionalAlign, as the values it leaves behind
DirectionalAlign(pov, gyro) ==
    LET latch == LatchUpdate(pov, lastPovValue, bStateChangeAllowed)
        same == [state |-> m_RobotDriveState, latch |-> latch,
                 dest |-> destinationAngle, timer |-> m_pDirectionalAlignTimer,
                 cmds |-> <<>>, started |-> FALSE, exited |-> FALSE,
                 bTurnLeft |-> FALSE, bTurnRight |-> FALSE,
                 latchSeen |-> latch,
                 timedOut |-> FALSE]
    IN IF m_RobotDriveState = MANUAL_CONTROL
       THEN IF latch
            THEN LET dest == DestinationAngle(pov)
                     dir == TurnDirection(gyro, dest)
                 IN [same EXCEPT !.state = DIRECTIONAL_ALIGN, !.latch = StartLatch(latch),
                                 !.dest = dest,
                                 !.timer = TimerStart(m_pDirectionalAlignTimer),
                                 !.cmds = TurnCmds(dir), !.started = TRUE,
                                 !.bTurnLeft = dir.bTurnLeft,
                                 !.bTurnRight = dir.bTurnRight]
            ELSE same
       ELSE IF AlignDone(gyro, destinationAngle, m_pDirectionalAlignTimer, latch)
            THEN [same EXCEPT !.state = MANUAL_CONTROL, !.latch = ExitLatch(latch),
                              !.dest = -1,
                              !.timer = TimerReset(TimerStop(m_pDirectionalAlignTimer)),
                              !.cmds = BothSides("align", OFF, OFF), !.exited = TRUE,
                              !.timedOut = TimedOut(m_pDirectionalAlignTimer)]
            ELSE same

\* the button checks ending in the forward speeds instead of none
InchSpeeds_DefaultForward(buttons) ==
    IF "BACKWARD" \in buttons
    THEN <<INCHING_DRIVE_SPEED * LEFT_DRIVE_REVERSE_SCALAR,
           INCHING_DRIVE_SPEED * RIGHT_DRIVE_REVERSE_SCALAR>>
    ELSE <<INCHING_DRIVE_SPEED * LEFT_DRIVE_FORWARD_SCALAR,
           INCHING_DRIVE_SPEED * RIGHT_DRIVE_FORWARD_SCALAR>>

\* the button checks made in the order left, right, forward, backward
InchSpeeds_TurnsFirst(buttons) ==
    IF "LEFT" \in buttons
    THEN <<INCHING_DRIVE_SPEED * LEFT_DRIVE_REVERSE_SCALAR,
           INCHING_DRIVE_SPEED * RIGHT_DRIVE_FORWARD_SCALAR>>
    ELSE IF "RIGHT" \in buttons
    THEN <<INCHING_DRIVE_SPEED * LEFT_DRIVE_FORWARD_SCALAR,
           INCHING_DRIVE_SPEED * RIGHT_DRIVE_REVERSE_SCALAR>>
    ELSE IF "FORWARD" \in buttons
    THEN <<INCHING_DRIVE_SPEED * LEFT_DRIVE_FORWARD_SCALAR,
           INCHING_DRIVE_SPEED * RIGHT_DRIVE_FORWARD_SCALAR>>
    ELSE IF "BACKWARD" \in buttons
    THEN <<INCHING_DRIVE_SPEED * LEFT_DRIVE_REVERSE_SCALAR,
           INCHING_DRIVE_SPEED * RIGHT_DRIVE_REVERSE_SCALAR>>
    ELSE <<0, 0>>

\* DirectionalInch: speeds selected by the first pressed button
InchSpeeds(buttons) ==
    IF "FORWARD" \in buttons
    THEN <<INCHING_DRIVE_SPEED * LEFT_DRIVE_FORWARD_SCALAR,
           INCHING_DRIVE_SPEED * RIGHT_DRIVE_FORWARD_SCALAR>>
    ELSE IF "BACKWARD" \in buttons
    THEN <<INCHING_DRIVE_SPEED * LEFT_DRIVE_REVERSE_SCALAR,
           INCHING_DRIVE_SPEED * RIGHT_DRIVE_REVERSE_SCALAR>>
    ELSE IF "LEFT" \in buttons
    THEN <<INCHING_DRIVE_SPEED * LEFT_DRIVE_REVERSE_SCALAR,
           INCHING_DRIVE_SPEED * RIGHT_DRIVE_FORWARD_SCALAR>>
    ELSE IF "RIGHT" \in buttons
    THEN <<INCHING_DRIVE_SPEED * LEFT_DRIVE_FORWARD_SCALAR,
           INCHING_DRIVE_SPEED * RIGHT_DRIVE_REVERSE_SCALAR>>
    ELSE <<0, 0>>

\* one statement of DirectionalInch after the button checks
InchStep(op, side, value) == [op |-> op, side |-> side, value |-> value]

\* the wait entered without the timer having been started
InchSteps_NoStart(leftSpeed, rightSpeed) ==
    <<InchStep("Reset", "timer", 0),
      InchStep("Set", "left", leftSpeed), InchStep("Set", "right", rightSpeed),
      InchStep("Wait", "timer", INCHING_DRIVE_DELAY_S),
      InchStep("Set", "left", OFF), InchStep("Set", "right", OFF),
      InchStep("Stop", "timer", 0), InchStep("Reset", "timer", 0)>>

\* the motors switched off before the wait instead of after it
InchSteps_OffBeforeWait(leftSpeed, rightSpeed) ==
    <<InchStep("Reset", "timer", 0), InchStep("Start", "timer", 0),
      InchStep("Set", "left", leftSpeed), InchStep("Set", "right", rightSpeed),
      InchStep("Set", "left", OFF), InchStep("Set", "right", OFF),
      InchStep("Wait", "timer", INCHING_DRIVE_DELAY_S),
      InchStep("Stop", "timer", 0), InchStep("Reset", "timer", 0)>>

\* DirectionalInch: the statements run once a button selected the speeds
InchSteps(leftSpeed, rightSpeed) ==
    <<InchStep("Reset", "timer", 0), InchStep("Start", "timer", 0),
      InchStep("Set", "left", leftSpeed), InchStep("Set", "right", rightSpeed),
      InchStep("Wait", "timer", INCHING_DRIVE_DELAY_S),
      InchStep("Set", "left", OFF), InchStep("Set", "right", OFF),
      InchStep("Stop", "timer", 0), InchStep("Reset", "timer", 0)>>

\* the timer after the first n statements; the busy wait ends when the
\* running timer has reached the delay
RECURSIVE InchTimer(_, _, _)
InchTimer(steps, n, tm) ==
    IF n = 0 THEN tm
    ELSE LET before == InchTimer(steps, n - 1, tm)
             st == steps[n]
         IN CASE st.op = "Reset" -> TimerReset(before)
              [] st.op = "Start" -> TimerStart(before)
              [] st.op = "Stop"  -> TimerStop(before)
              [] st.op = "Wait"  -> IF before.running /\ before.t < st.value
                                    THEN [before EXCEPT !.t = st.value] ELSE before
              [] OTHER           -> before

\* the Set() calls among the first n statements, in order
RECURSIVE InchCmds(_, _)
InchCmds(steps, n) ==
    IF n = 0 THEN <<>>
    ELSE IF steps[n].op = "Set"
         THEN Append(InchCmds(steps, n - 1), DriveCmd("inch", steps[n].side, steps[n].value))
         ELSE InchCmds(steps, n - 1)

\* YtaRobot::DirectionalInch, as the values it leaves behind.  The busy wait
\* runs inside the call: the timer is reset, started, runs up to the delay,
\* and is stopped and reset again.
DirectionalInch(buttons) ==
    LET speeds == InchSpeeds(buttons)
        steps == InchSteps(speeds[1], speeds[2])
    IN IF speeds[1] = 0 /\ speeds[2] = 0
       THEN [handled |-> FALSE, cmds |-> <<>>, timer |-> m_pInchingDriveTimer,
             steps |-> <<>>]
       ELSE [handled |-> TRUE,
             cmds |-> InchCmds(steps, Len(steps)),
             timer |-> InchTimer(steps, Len(steps), m_pInchingDriveTimer),
             steps |-> steps]

\* the dead band with its two limits inside
Trim_Inclusive(value, upper, lower) == IF (value <= upper) /\ (value >= lower) THEN 0 ELSE value

\* RobotUtils::Trim
Trim(value, upper, lower) == IF (value < upper) /\ (value > lower) THEN 0 ELSE value

\* the limit applied at the upper bound only
Limit_UpperOnly(value, upper, lower) == IF value > upper THEN upper ELSE value

\* RobotUtils::Limit
Limit(value, upper, lower) ==
    IF value > upper THEN upper ELSE IF value < lower THEN lower ELSE value

\* YtaRobot::LeftDriveEquation / RightDriveEquation
LeftDriveEquation(xInput, yInput)  == xInput - yInput
RightDriveEquation(xInput, yInput) == xInput + yInput

\* the slow drive input added to the normal x-axis input
SlowDriveChoice_Sum(xAxisDrive, xAxisSlowDrive) == xAxisDrive + xAxisSlowDrive

\* DriveControlSequence: if the normal x-axis drive is non-zero, use it;
\* otherwise use the slow drive input
SlowDriveChoice(xAxisDrive, xAxisSlowDrive) ==
    IF xAxisDrive # 0 THEN xAxisDrive ELSE xAxisSlowDrive

\* DriveControlSequence: the conditioning of the joystick inputs (throttle in
\* hundredths) and the speeds handed to Set()
ManualDrive(x, y, slow, throttleControl, bDriveSwap) ==
    LET xTrim == Trim((x * throttleControl) \div 100,
                      JOYSTICK_TRIM_UPPER_LIMIT, JOYSTICK_TRIM_LOWER_LIMIT)
        yTrim == Trim((y * throttleControl) \div 100,
                      JOYSTICK_TRIM_UPPER_LIMIT, JOYSTICK_TRIM_LOWER_LIMIT)
        yAxisDrive == IF bDriveSwap THEN 0 - yTrim ELSE yTrim
        xFlip == IF (~USE_INVERTED_REVERSE_CONTROLS) /\ (yAxisDrive > 0) THEN 0 - xTrim ELSE xTrim
        xAxisSlowDrive == Trim((slow * DRIVE_SLOW_THROTTLE_VALUE) \div 100,
                               JOYSTICK_TRIM_UPPER_LIMIT, JOYSTICK_TRIM_LOWER_LIMIT)
        xAxisDrive == IF SLOW_DRIVE_ENABLED
                      THEN SlowDriveChoice(xFlip, xAxisSlowDrive)
                      ELSE xFlip
    IN [xTrim |-> xTrim, xAxisSlowDrive |-> xAxisSlowDrive,
        xAxisDrive |-> xAxisDrive, yAxisDrive |-> yAxisDrive,
        leftSpeed |-> Limit(LeftDriveEquation(xAxisDrive, yAxisDrive),
                            DRIVE_MOTOR_UPPER_LIMIT, DRIVE_MOTOR_LOWER_LIMIT),
        rightSpeed |-> Limit(RightDriveEquation(xAxisDrive, yAxisDrive),
                             DRIVE_MOTOR_UPPER_LIMIT, DRIVE_MOTOR_LOWER_LIMIT)]

\* DriveControlSequence in teleop: the joystick-derived speeds (the throttle
\* is at its maximum, m_bDriveSwap is never set)
ManualSpeeds(x, y, slow) ==
    LET d == ManualDrive(x, y, slow, 100, FALSE)
    IN <<d.leftSpeed, d.rightSpeed>>

\* DriveControlSequence without the early return
AlignInProgress_NoReturn(state) == FALSE

\* the early return decided by the state DirectionalAlign was entered with
AlignInProgress_AtEntry(state) ==
    DIRECTIONAL_ALIGN_ENABLED /\ m_RobotDriveState = DIRECTIONAL_ALIGN

\* DriveControlSequence: an align in progress takes the tick
AlignInProgress(state) == DIRECTIONAL_ALIGN_ENABLED /\ state = DIRECTIONAL_ALIGN

NoTick ==
    [pov |-> -1, prePressed |-> FALSE, gyro |-> NoRead,
     preState |-> MANUAL_CONTROL, preDest |-> -1,
     latchSeen |-> FALSE, timedOut |-> FALSE, started |-> FALSE, exited |-> FALSE,
     bTurnLeft |-> FALSE, bTurnRight |-> FALSE,
     buttons |-> {}, inched |-> FALSE, inchSteps |-> <<>>,
     x |-> 0, y |-> 0, slow |-> 0]

\* what one pass of DriveControlSequence leaves behind, given what
\* DirectionalAlign (a) did, the Set() calls of the rest of the pass and the
\* inputs the rest of the pass read
FinishTick(pov, gyro, a, i, cmds, buttons, x, y, slow) ==
    /\ m_RobotDriveState' = a.state
    /\ lastPovValue' = pov
    /\ bStateChangeAllowed' = a.latch
    /\ destinationAngle' = a.dest
    /\ m_pDirectionalAlignTimer' = a.timer
    /\ m_pInchingDriveTimer' = i.timer
    /\ driveLog' = a.cmds \o cmds
    /\ leftDrive' = LastValue(a.cmds \o cmds, "left", leftDrive)
    /\ rightDrive' = LastValue(a.cmds \o cmds, "right", rightDrive)
    /\ tick' = [pov |-> pov, prePressed |-> (lastPovValue # -1), gyro |-> gyro,
                preState |-> m_RobotDriveState,
                preDest |-> destinationAngle, latchSeen |-> a.latchSeen,
                timedOut |-> a.timedOut, started |-> a.started, exited |-> a.exited,
                bTurnLeft |-> a.bTurnLeft, bTurnRight |-> a.bTurnRight,
                buttons |-> buttons, inched |-> i.handled, inchSteps |-> i.steps,
                x |-> x, y |-> y, slow |-> slow]
    /\ event' = "TeleopPeriodic"
    /\ UNCHANGED robotMode

\* the pass going on to the joystick after an inch
InchReturns_Never(handled) == FALSE

\* DriveControlSequence: if a directional inch occurred, just return
InchReturns(handled) == handled

NoInch == [handled |-> FALSE, cmds |-> <<>>, timer |-> m_pInchingDriveTimer,
           steps |-> <<>>]

\* YtaRobot::DriveControlSequence; the inching buttons and the joystick are
\* read only when the pass reaches them, from the given sets of readings
DriveControlSequence(pov, gyro, buttonReadings, joystickReadings) ==
    LET a == DirectionalAlign(pov, gyro)
    IN IF AlignInProgress(a.state)
       THEN FinishTick(pov, gyro, a, NoInch, <<>>, {}, 0, 0, 0)
       ELSE \E buttons \in buttonReadings :
              LET i == IF DIRECTIONAL_INCH_ENABLED THEN DirectionalInch(buttons) ELSE NoInch
              IN IF InchReturns(i.handled)
                 THEN FinishTick(pov, gyro, a, i, i.cmds, buttons, 0, 0, 0)
                 ELSE \E j \in joystickReadings :
                        LET sp == ManualSpeeds(j[1], j[2], j[3])
                        IN FinishTick(pov, gyro, a, i,
                                      i.cmds \o BothSides("manual", sp[1], sp[2]),
                                      buttons, j[1], j[2], j[3])

\* one pass of TeleopPeriodic with the inputs read from the given sets (the
\* drive part: the other sequences do not touch the drive state)
TeleopPass(povReadings, gyroReadings, buttonReadings, joystickReadings) ==
    /\ robotMode = "TELEOP"
    /\ \E pov \in povReadings :
         \E gyro \in (IF ReadsGyro(pov) THEN gyroReadings ELSE {NoRead}) :
            DriveControlSequence(pov, gyro, buttonReadings, joystickReadings)

\* YtaRobot::TeleopPeriodic
TeleopPeriodic == TeleopPass(PovValues, Headings, ButtonSets, JoystickInputs)

\* YtaRobot::TeleopPeriodic in the specification with fairness: fewer readings
TeleopPeriodicFair == TeleopPass(FairPovValues, FairHeadings, FairButtonSets, FairJoystickInputs)

\* YtaRobot::InitialStateSetup (drive part), run by TeleopInit
InitialStateSetup ==
    /\ driveLog' = BothSides("init", OFF, OFF)
    /\ leftDrive' = OFF
    /\ rightDrive' = OFF
    /\ m_pInchingDriveTimer' = TimerReset(TimerStop(m_pInchingDriveTimer))
    /\ m_pDirectionalAlignTimer' = TimerReset(TimerStop(m_pDirectionalAlignTimer))

\* YtaRobot::TeleopInit: the scheduler enters teleop
TeleopInit ==
    /\ robotMode = "DISABLED"
    /\ robotMode' = "TELEOP"
    /\ InitialStateSetup
    /\ tick' = NoTick
    /\ event' = "TeleopInit"
    /\ UNCHANGED <<m_RobotDriveState, lastPovValue, bStateChangeAllowed, destinationAngle>>

\* YtaRobot::DisabledInit: the scheduler enters disabled
DisabledInit ==
    /\ robotMode = "TELEOP"
    /\ robotMode' = "DISABLED"
    /\ driveLog' = BothSides("disabled", OFF, OFF)
    /\ leftDrive' = OFF
    /\ rightDrive' = OFF
    /\ tick' = NoTick
    /\ event' = "DisabledInit"
    /\ UNCHANGED <<m_RobotDriveState, lastPovValue, bStateChangeAllowed, destinationAngle,
                   m_pDirectionalAlignTimer, m_pInchingDriveTimer>>

\* time passes between two handlers
TimePasses ==
    /\ m_pDirectionalAlignTimer' = TimerAdvance(m_pDirectionalAlignTimer)
    /\ m_pInchingDriveTimer' = TimerAdvance(m_pInchingDriveTimer)
    /\ m_pDirectionalAlignTimer' # m_pDirectionalAlignTimer
    /\ driveLog' = <<>>
    /\ tick' = NoTick
    /\ event' = "TimePasses"
    /\ UNCHANGED <<robotMode, m_RobotDriveState, lastPovValue, bStateChangeAllowed,
                   destinationAngle, leftDrive, rightDrive>>

\* YtaRobot::YtaRobot
DriveInit ==
    /\ robotMode = "DISABLED"
    /\ m_RobotDriveState = MANUAL_CONTROL
    /\ lastPovValue = -1
    /\ bStateChangeAllowed = FALSE
    /\ destinationAngle = -1
    /\ m_pDirectionalAlignTimer = NewTimer
    /\ m_pInchingDriveTimer = NewTimer
    /\ leftDrive = OFF
    /\ rightDrive = OFF
    /\ driveLog = <<>>
    /\ tick = NoTick
    /\ event = "YtaRobot"

DriveNext ==
    \/ TeleopPeriodic /\ UNCHANGED <<groupVars, utilVars>>
    \/ TeleopInit /\ UNCHANGED <<groupVars, utilVars>>
    \/ DisabledInit /\ UNCHANGED <<groupVars, utilVars>>
    \/ TimePasses /\ UNCHANGED <<groupVars, utilVars>>

\* uninterrupted teleop: the robot stays enabled, ticks and the clock go on
TeleopNext ==
    \/ TeleopPeriodicFair /\ UNCHANGED <<groupVars, utilVars>>
    \/ (TeleopInit /\ event = "YtaRobot") /\ UNCHANGED <<groupVars, utilVars>>
    \/ TimePasses /\ UNCHANGED <<groupVars, utilVars>>

\* YtaRobot::TeleopPeriodic with any number of inching buttons pressed at once
AllButtonSets == SUBSET InchButtons
TeleopPeriodicAnyButtons == TeleopPass(FairPovValues, FairHeadings, AllButtonSets, JoystickInputs)

InchNext ==
    \/ TeleopPeriodicAnyButtons /\ UNCHANGED <<groupVars, utilVars>>
    \/ TeleopInit /\ UNCHANGED <<groupVars, utilVars>>

\* the first align of a teleop session, started from every heading
AlignStart ==
    /\ robotMode = "TELEOP"
    /\ m_RobotDriveState = MANUAL_CONTROL
    /\ TeleopPass(PovValues, 0..(ANGLE_360_DEGREES - 1), ButtonSets, JoystickInputs)

AlignStartNext ==
    \/ AlignStart /\ UNCHANGED <<groupVars, utilVars>>
    \/ TeleopInit /\ UNCHANGED <<groupVars, utilVars>>

\* ---- RobotUtils::Trim and RobotUtils::Limit called on a grid of values ----
\* largest magnitude of a value handed to Trim and Limit, in hundredths
GridMax == 12
Grid == (0 - GridMax)..GridMax
\* dead bands <<upper, lower>> around zero: the joystick's and a narrow one
DeadBands == {<<JOYSTICK_TRIM_UPPER_LIMIT, JOYSTICK_TRIM_LOWER_LIMIT>>, <<1, -1>>,
              <<JOYSTICK_TRIM_UPPER_LIMIT, -1>>, <<1, JOYSTICK_TRIM_LOWER_LIMIT>>}
\* ranges <<upperBound, lowerBound>> handed to Limit
Ranges == {<<8, -8>>, <<8, 0>>, <<0, -8>>, <<3, 3>>}

NoCall == [fn |-> "None", value |-> 0, upper |-> 0, lower |-> 0, out |-> 0, again |-> 0]

UtilInit == util = NoCall

\* one call of RobotUtils::Trim, and a second call on its result
CallTrim ==
    \E v \in Grid, b \in DeadBands :
        LET out == Trim(v, b[1], b[2])
        IN util' = [fn |-> "Trim", value |-> v, upper |-> b[1], lower |-> b[2],
                    out |-> out, again |-> Trim(out, b[1], b[2])]

\* one call of RobotUtils::Limit, and a second call on its result
CallLimit ==
    \E v \in Grid, b \in Ranges :
        LET out == Limit(v, b[1], b[2])
        IN util' = [fn |-> "Limit", value |-> v, upper |-> b[1], lower |-> b[2],
                    out |-> out, again |-> Limit(out, b[1], b[2])]

UtilNext ==
    \/ CallTrim /\ UNCHANGED <<groupVars, driveVars, callVars>>
    \/ CallLimit /\ UNCHANGED <<groupVars, driveVars, callVars>>

\* ---- one call of DirectionalInch, statement by statement ----
\* time that passes in one step of the clock during the busy wait, in hundredths
WaitStep == 5
\* the largest timer value told apart during a call
WaitCap == INCHING_DRIVE_DELAY_S + WaitStep
\* states the inching timer can be found in when DirectionalInch is called
PriorTimers == {[running |-> r, t |-> v] : r \in BOOLEAN, v \in {0, WaitStep, WaitCap}}
\* positions of a call: the statements 1..Len(steps), then returned
InchReturned == 0

NoInchCall == [pc |-> InchReturned, called |-> FALSE, result |-> FALSE,
               steps |-> <<>>, timer |-> NewTimer, before |-> NewTimer, loops |-> 0]

\* DirectionalInch is called: the button checks and the early return
InchBegin ==
    /\ inchCall.pc = InchReturned
    /\ \E buttons \in ButtonSets, tm \in PriorTimers :
          LET speeds == InchSpeeds(buttons)
          IN IF speeds[1] = 0 /\ speeds[2] = 0
             THEN inchCall' = [NoInchCall EXCEPT !.called = TRUE, !.timer = tm, !.before = tm]
             ELSE inchCall' = [pc |-> 1, called |-> TRUE, result |-> FALSE,
                               steps |-> InchSteps(speeds[1], speeds[2]),
                               timer |-> tm, before |-> tm, loops |-> 0]

\* the position after the statement at pc; the call returns true after the last one
InchAfter(pc) == IF pc = Len(inchCall.steps) THEN InchReturned ELSE pc + 1

\* one statement other than the busy wait
InchStatement ==
    /\ inchCall.pc # InchReturned
    /\ LET st == inchCall.steps[inchCall.pc]
       IN /\ st.op # "Wait"
          /\ inchCall' = [inchCall EXCEPT
                 !.pc = InchAfter(inchCall.pc),
                 !.result = (inchCall.pc = Len(inchCall.steps)),
                 !.timer = CASE st.op = "Reset" -> TimerReset(@)
                             [] st.op = "Start" -> TimerStart(@)
                             [] st.op = "Stop"  -> TimerStop(@)
                             [] OTHER           -> @]

\* the busy wait: while (m_pInchingDriveTimer->Get() < INCHING_DRIVE_DELAY_S) {}
\* one evaluation of the condition that finds it false leaves the loop
InchWaitExit ==
    /\ inchCall.pc # InchReturned
    /\ LET st == inchCall.steps[inchCall.pc]
       IN /\ st.op = "Wait"
          /\ ~(TimerGet(inchCall.timer) < st.value)
          /\ inchCall' = [inchCall EXCEPT !.pc = InchAfter(inchCall.pc)]

\* the clock moves on during the call: a started timer's value increases
InchClock ==
    /\ inchCall.pc # InchReturned
    /\ inchCall.timer.running
    /\ inchCall.timer.t < WaitCap
    /\ inchCall' = [inchCall EXCEPT
           !.timer.t = @ + WaitStep,
           !.loops = IF inchCall.steps[inchCall.pc].op = "Wait" THEN 1 ELSE @]

InchCallNext ==
    \/ InchBegin /\ UNCHANGED <<groupVars, driveVars, util, manualCall, turretCall, turnCall>>
    \/ InchStatement /\ UNCHANGED <<groupVars, driveVars, util, manualCall, turretCall, turnCall>>
    \/ InchWaitExit /\ UNCHANGED <<groupVars, driveVars, util, manualCall, turretCall, turnCall>>
    \/ InchClock /\ UNCHANGED <<groupVars, driveVars, util, manualCall, turretCall, turnCall>>

\* ---- the manual drive path of DriveControlSequence on a grid of inputs ----
\* axis readings in [-1, 1], in hundredths: the ends, the edge and the inside
\* of the dead band, and values between
AxisGrid == {-100, -60, -20, -10, 0, 8, 20, 60, 100}
\* throttle values in hundredths
Throttles == {50, 100}

NoManualCall == [called |-> FALSE, x |-> 0, y |-> 0, slow |-> 0, throttle |-> 0,
                 swap |-> FALSE, out |-> ManualDrive(0, 0, 0, 0, FALSE)]

\* one pass of the manual drive path: the inputs read and the speeds set
\* (the path keeps nothing from one pass to the next, so one pass is followed)
CallManual ==
    /\ ~manualCall.called
    /\ \E x \in AxisGrid, y \in AxisGrid, slow \in AxisGrid, th \in Throttles, sw \in BOOLEAN :
          manualCall' = [called |-> TRUE, x |-> x, y |-> y, slow |-> slow, throttle |-> th,
                         swap |-> sw, out |-> ManualDrive(x, y, slow, th, sw)]

ManualNext ==
    \/ CallManual /\ UNCHANGED <<groupVars, driveVars, util, inchCall, turretCall, turnCall>>

\* ---- YtaRobot::TurretSequence ----
TURRET_MOTOR_SCALING_VALUE == 30
\* readings of the turret control axis: TurretAxisStep hundredths apart, up to 1.0
TurretAxisSteps == 20
TurretAxisStep == 100 \div TurretAxisSteps
TurretAxis == {k * TurretAxisStep : k \in (0 - TurretAxisSteps)..TurretAxisSteps}

\* the movement flags taken from the sensor of their own side
MovementAllowed_OwnSide(leftHall, rightHall) ==
    [bLeftMovementAllowed |-> leftHall, bRightMovementAllowed |-> rightHall]

\* TurretSequence: hall sensors read true until the field is introduced; the
\* left sensor forbids the right movement flag and the right sensor the left one
MovementAllowed(leftHall, rightHall) ==
    [bLeftMovementAllowed  |-> IF ~rightHall THEN FALSE ELSE TRUE,
     bRightMovementAllowed |-> IF ~leftHall THEN FALSE ELSE TRUE]

\* TurretSequence: the Set() calls on m_pTurretMotor, values in ten-thousandths
TurretCmds(leftHall, rightHall, turretControlValue) ==
    LET a == MovementAllowed(leftHall, rightHall)
    IN IF (turretControlValue < 0) /\ a.bRightMovementAllowed
       THEN <<turretControlValue * TURRET_MOTOR_SCALING_VALUE>>
       ELSE IF (turretControlValue > 0) /\ a.bLeftMovementAllowed
       THEN <<turretControlValue * TURRET_MOTOR_SCALING_VALUE>>
       ELSE <<OFF>>

NoTurretCall == [called |-> FALSE, leftHall |-> TRUE, rightHall |-> TRUE,
                 axis |-> 0, cmds |-> <<>>]

\* YtaRobot::TurretSequence, called once per teleop tick
TurretSequence ==
    \E l \in BOOLEAN, r \in BOOLEAN, v \in TurretAxis :
        turretCall' = [called |-> TRUE, leftHall |-> l, rightHall |-> r, axis |-> v,
                       cmds |-> TurretCmds(l, r, v)]

TurretNext ==
    \/ TurretSequence /\ UNCHANGED <<groupVars, driveVars, util, inchCall, manualCall, turnCall>>

\* ---- YtaRobot::AutonomousGyroLeftTurn / AutonomousGyroRightTurn ----
SAFETY_TIMER_MAX_VALUE == 500
\* time that passes in one step of the clock during a turn, in hundredths
TurnClockStep == 250
\* the arguments of a turn, and the headings the gyro reports during it
DestAngles == {90, 180}
TurnSpeeds == {50}
GyroReadings == {80, 90, 100}

NoTurnCall == [pc |-> "Returned", called |-> FALSE, dir |-> "LEFT_TURN", destAngle |-> 0,
               timer |-> NewTimer, autonomous |-> TRUE, gyro |-> NoRead,
               cmds |-> <<>>, exitBy |-> "none", stoppedAt |-> 0, result |-> FALSE]

\* one call on the drive groups during a turn
TurnCmd(op, side, v) == [op |-> op, side |-> side, value |-> v]

\* the first operand of the loop condition: the angle decreases in a left
\* turn and increases in a right turn
AngleNotReached(dir, gyro, destAngle) ==
    IF dir = "LEFT_TURN" THEN gyro > destAngle ELSE gyro < destAngle

\* the wait loop going on whatever the safety timer reads
LoopContinues_NoTimer(dir, gyro, destAngle, tm) == AngleNotReached(dir, gyro, destAngle)

\* the condition of the wait loop
LoopContinues(dir, gyro, destAngle, tm) ==
    /\ AngleNotReached(dir, gyro, destAngle)
    /\ TimerGet(tm) <= SAFETY_TIMER_MAX_VALUE

\* the turn is called in autonomous: both groups are set, the safety timer
\* is reset and started
TurnBegin ==
    /\ turnCall.pc = "Returned"
    /\ \E dir \in {"LEFT_TURN", "RIGHT_TURN"}, destAngle \in DestAngles, turnSpeed \in TurnSpeeds :
          LET v == IF dir = "LEFT_TURN" THEN 0 - turnSpeed ELSE turnSpeed
          IN turnCall' = [NoTurnCall EXCEPT
                 !.pc = "Loop", !.called = TRUE, !.dir = dir, !.destAngle = destAngle,
                 !.timer = TimerStart(TimerReset(turnCall.timer)),
                 !.cmds = <<TurnCmd("Set", "left", v), TurnCmd("Set", "right", v)>>]

\* one evaluation of the condition of the wait loop, with the heading the
\* gyro reports at that moment
TurnLoopCheck ==
    /\ turnCall.pc = "Loop"
    /\ \E g \in GyroReadings :
          IF LoopContinues(turnCall.dir, g, turnCall.destAngle, turnCall.timer)
          THEN turnCall' = [turnCall EXCEPT !.pc = "Body", !.gyro = g]
          ELSE turnCall' = [turnCall EXCEPT
                 !.pc = "Off", !.gyro = g,
                 !.exitBy = IF AngleNotReached(turnCall.dir, g, turnCall.destAngle)
                            THEN "timer" ELSE "gyro"]

\* the body of the wait loop: break when the robot is no longer in autonomous
TurnLoopBody ==
    /\ turnCall.pc = "Body"
    /\ IF ~turnCall.autonomous
       THEN turnCall' = [turnCall EXCEPT !.pc = "Off", !.exitBy = "mode"]
       ELSE turnCall' = [turnCall EXCEPT !.pc = "Loop"]

\* after the loop: both groups off
TurnMotorsOff ==
    /\ turnCall.pc = "Off"
    /\ turnCall' = [turnCall EXCEPT
           !.pc = "Stop",
           !.cmds = @ \o <<TurnCmd("Set", "left", OFF), TurnCmd("Set", "right", OFF)>>]

\* the safety timer is stopped and read: above the maximum the turn returns
\* false; otherwise the coast is counteracted and the turn returns true; the
\* timer is reset in both cases
TurnFinish ==
    /\ turnCall.pc = "Stop"
    /\ LET stopped == TimerStop(turnCall.timer)
       IN IF TimerGet(stopped) > SAFETY_TIMER_MAX_VALUE
          THEN turnCall' = [turnCall EXCEPT
                 !.pc = "Returned", !.stoppedAt = TimerGet(stopped),
                 !.timer = TimerReset(stopped), !.result = FALSE]
          ELSE turnCall' = [turnCall EXCEPT
                 !.pc = "Returned", !.stoppedAt = TimerGet(stopped),
                 !.timer = TimerReset(stopped),
                 !.cmds = @ \o <<TurnCmd("AutonomousBackDriveTurn", turnCall.dir, 0)>>,
                 !.result = TRUE]

\* the clock moves on during the call: a started timer's value increases
\* (values above the maximum are not told apart)
TurnClock ==
    /\ turnCall.pc # "Returned"
    /\ turnCall.timer.running
    /\ turnCall.timer.t <= SAFETY_TIMER_MAX_VALUE
    /\ turnCall' = [turnCall EXCEPT !.timer.t = @ + TurnClockStep]

\* the driver station takes the robot out of autonomous during the call
LeaveAutonomous ==
    /\ turnCall.pc # "Returned"
    /\ turnCall.autonomous
    /\ turnCall' = [turnCall EXCEPT !.autonomous = FALSE]

TurnNext ==
    \/ TurnBegin /\ UNCHANGED <<groupVars, driveVars, util, inchCall, manualCall, turretCall>>
    \/ TurnLoopCheck /\ UNCHANGED <<groupVars, driveVars, util, inchCall, manualCall, turretCall>>
    \/ TurnLoopBody /\ UNCHANGED <<groupVars, driveVars, util, inchCall, manualCall, turretCall>>
    \/ TurnMotorsOff /\ UNCHANGED <<groupVars, driveVars, util, inchCall, manualCall, turretCall>>
    \/ TurnFinish /\ UNCHANGED <<groupVars, driveVars, util, inchCall, manualCall, turretCall>>
    \/ TurnClock /\ UNCHANGED <<groupVars, driveVars, util, inchCall, manualCall, turretCall>>
    \/ LeaveAutonomous /\ UNCHANGED <<groupVars, driveVars, util, inchCall, manualCall, turretCall>>

CallInit ==
    /\ inchCall = NoInchCall
    /\ manualCall = NoManualCall
    /\ turretCall = NoTurretCall
    /\ turnCall = NoTurnCall

Init == GroupInit /\ DriveInit /\ UtilInit /\ CallInit

\* the motor group under any sequence of calls
GroupSpec == Init /\ [][GroupNext]_vars
\* the motor group under any sequence of additions, neutral-mode calls,
\* encoder calls and turns of the encoder
GroupServiceSpec == Init /\ [][GroupServiceNext]_vars
\* Trim and Limit called with every value, dead band and range of the grid
UtilSpec == Init /\ [][UtilNext]_vars
\* the drive control under any schedule of mode changes, ticks and clock steps
DriveSpec == Init /\ [][DriveNext]_vars
\* teleop that is never interrupted, with ticks and the clock always going on
TeleopSpec ==
    /\ Init
    /\ [][TeleopNext]_vars
    /\ WF_vars(TeleopPeriodicFair /\ UNCHANGED <<groupVars, utilVars>>)
    /\ WF_vars(TimePasses /\ UNCHANGED <<groupVars, utilVars>>)
\* calls of DirectionalInch with the timer found in any state; the statements
\* of a call are always run on, and the clock goes on while the timer runs
InchCallSpec ==
    /\ Init
    /\ [][InchCallNext]_vars
    /\ WF_vars(InchStatement /\ UNCHANGED <<groupVars, driveVars, util, manualCall, turretCall, turnCall>>)
    /\ WF_vars(InchWaitExit /\ UNCHANGED <<groupVars, driveVars, util, manualCall, turretCall, turnCall>>)
    /\ WF_vars(InchClock /\ UNCHANGED <<groupVars, driveVars, util, manualCall, turretCall, turnCall>>)
\* the autonomous gyro turns with any heading reported at every reading; the
\* statements of a call are always run on, and the clock goes on while the
\* safety timer runs
TurnSpec ==
    /\ Init
    /\ [][TurnNext]_vars
    /\ WF_vars(TurnLoopCheck /\ UNCHANGED <<groupVars, driveVars, util, inchCall, manualCall, turretCall>>)
    /\ WF_vars(TurnLoopBody /\ UNCHANGED <<groupVars, driveVars, util, inchCall, manualCall, turretCall>>)
    /\ WF_vars(TurnMotorsOff /\ UNCHANGED <<groupVars, driveVars, util, inchCall, manualCall, turretCall>>)
    /\ WF_vars(TurnFinish /\ UNCHANGED <<groupVars, driveVars, util, inchCall, manualCall, turretCall>>)
    /\ WF_vars(TurnClock /\ UNCHANGED <<groupVars, driveVars, util, inchCall, manualCall, turretCall>>)
\* the turret sequence with every reading of the sensors and of the axis
TurretSpec == Init /\ [][TurretNext]_vars
\* the manual drive path with every input of the grid
ManualSpec == Init /\ [][ManualNext]_vars
\* teleop ticks with every combination of the inching buttons
InchSpec == Init /\ [][InchNext]_vars
\* the start of an align, for every heading the gyro can report
AlignStartSpec == Init /\ [][AlignStartNext]_vars
----
\* ===================== Properties of TalonMotorGroup =====================

\* the calls the last operation made on the controller with this CAN id
CallsTo(canId) == SelectSeq(issued, LAMBDA c : c.canId = canId)

\* the last operation commanded the controller exactly once, with this percent output
CommandedOnce(canId, v) == CallsTo(canId) = <<PercentCmd(canId, v)>>

\* C1: after every Set(value, offset), each entry whose mode is Primary or
\* Independent was commanded value, each Inverse entry -value, each
\* IndependentWithOffset entry value+offset and each InverseWithOffset entry
\* -(value+offset), once each.
C1_SetCommandsByMode ==
    lastOp.op = "Set" =>
        \A i \in 1..Len(m_pMotorsInfo) :
            LET e == m_pMotorsInfo[i]
                v == lastOp.value
                o == lastOp.offset
            IN /\ e.m_ControlMode = MASTER => CommandedOnce(e.m_CanId, v)
               /\ e.m_ControlMode = INDEPENDENT => CommandedOnce(e.m_CanId, v)
               /\ e.m_ControlMode = INVERSE => CommandedOnce(e.m_CanId, 0 - v)
               /\ e.m_ControlMode = INDEPENDENT_OFFSET => CommandedOnce(e.m_CanId, v + o)
               /\ e.m_ControlMode = INVERSE_OFFSET => CommandedOnce(e.m_CanId, 0 - (v + o))

\* C1 witness: the group made of controllers 10 (Primary) and 11 (Inverse)
\* after Set(-0.3): 10 was commanded -0.3 and 11 was commanded 0.3.
C1_Witness ==
    /\ lastOp.op = "Set" /\ lastOp.value = -30
    /\ Len(m_pMotorsInfo) = 2
    /\ m_pMotorsInfo[1].m_ControlMode = MASTER /\ m_pMotorsInfo[1].m_CanId = 10
    /\ m_pMotorsInfo[2].m_ControlMode = INVERSE /\ m_pMotorsInfo[2].m_CanId = 11
    /\ issued = <<PercentCmd(10, -30), PercentCmd(11, 30)>>

\* C7 (as claimed): in every constructed group exactly one entry has mode
\* Primary and it is the entry at index 0.
C7_OnePrimaryAtIndex0 ==
    constructed =>
        /\ m_pMotorsInfo[1].m_ControlMode = MASTER
        /\ \A i \in 2..Len(m_pMotorsInfo) : m_pMotorsInfo[i].m_ControlMode # MASTER

\* C8: Set never sends a percent output to an entry whose mode is Follower,
\* and the last command the controller of a Follower entry has received is
\* the follower link to the group's primary controller.
C8_FollowerNeverSet ==
    \A i \in 1..Len(m_pMotorsInfo) :
        LET e == m_pMotorsInfo[i]
        IN e.m_ControlMode = FOLLOW =>
              /\ lastOp.op = "Set" => CallsTo(e.m_CanId) = <<>>
              /\ e.m_pTalonSrx = [ctrl |-> "Follower", follows |-> m_MasterCanId]

\* C8 witness: a Set that commanded some controller while the group holds a
\* Follower entry.
C8_Witness ==
    /\ lastOp.op = "Set" /\ lastOp.value # 0
    /\ issued # <<>>
    /\ \E i \in 1..Len(m_pMotorsInfo) : m_pMotorsInfo[i].m_ControlMode = FOLLOW

\* C9 (as claimed): Set issues no command to an entry whose mode is Custom.
C9_CustomNotCommanded ==
    lastOp.op = "Set" =>
        \A i \in 1..Len(m_pMotorsInfo) :
            m_pMotorsInfo[i].m_ControlMode = CUSTOM =>
                CallsTo(m_pMotorsInfo[i].m_CanId) = <<>>

\* C9 (amended): Set commands an entry whose mode is Custom with percent
\* output 0, once, whatever value and offset are.
C9_CustomCommandedZero ==
    lastOp.op = "Set" =>
        \A i \in 1..Len(m_pMotorsInfo) :
            m_pMotorsInfo[i].m_ControlMode = CUSTOM =>
                CommandedOnce(m_pMotorsInfo[i].m_CanId, 0)

\* C9 witness: a Set with a value and an offset other than 0 on a group that
\* holds a Custom entry.
C9_Witness ==
    /\ lastOp.op = "Set" /\ lastOp.value # 0 /\ lastOp.offset # 0
    /\ \E i \in 1..Len(m_pMotorsInfo) : m_pMotorsInfo[i].m_ControlMode = CUSTOM

\* C10: AddEntry on a group that holds 4 entries returns false and changes
\* neither the entries nor their count; AddEntry on a group that holds fewer
\* returns true, keeps the entries there were and adds exactly one.
C10_AddEntryCapacity ==
    [][lastOp'.op = "Add" =>
         IF Len(m_pMotorsInfo) >= 4
         THEN /\ lastOp'.result = FALSE
              /\ m_pMotorsInfo' = m_pMotorsInfo
              /\ m_NumMotors' = m_NumMotors
         ELSE /\ lastOp'.result = TRUE
              /\ Len(m_pMotorsInfo') = Len(m_pMotorsInfo) + 1
              /\ m_NumMotors' = m_NumMotors + 1
              /\ SubSeq(m_pMotorsInfo', 1, Len(m_pMotorsInfo)) = m_pMotorsInfo]_vars

\* C10 witness: an AddEntry that was refused by a group holding 4 entries.
C10_Witness ==
    /\ lastOp.op = "Add" /\ lastOp.result = FALSE
    /\ Len(m_pMotorsInfo) = 4

\* C11 (as claimed): after Create(count, ...) the recorded entry count is
\* min(count, 4); the recorded count always equals the number of constructed
\* entries, so no loop over it ever leaves the constructed entries.
C11_CountClamped ==
    constructed =>
        /\ lastOp.op = "Create" => m_NumMotors = Min(lastOp.value, MAX_NUMBER_OF_MOTORS)
        /\ m_NumMotors = Len(m_pMotorsInfo)
        /\ ~halted

\* C18 (as claimed): every SetEntryMode(id, mode) returns; with an id that
\* belongs to no entry it returns false, changes no entry and commands no
\* controller; with an id that belongs to an entry it returns true and
\* changes the mode of exactly that entry; the entry count never changes.
C18_SetEntryModeResult ==
    [][lastOp'.op = "SetMode" =>
         LET id == lastOp'.canId
             owners == {i \in 1..Len(m_pMotorsInfo) : m_pMotorsInfo[i].m_CanId = id}
         IN /\ ~halted'
            /\ Len(m_pMotorsInfo') = Len(m_pMotorsInfo)
            /\ m_NumMotors' = m_NumMotors
            /\ IF owners = {}
               THEN /\ lastOp'.result = FALSE
                    /\ m_pMotorsInfo' = m_pMotorsInfo
                    /\ issued' = <<>>
               ELSE /\ lastOp'.result = TRUE
                    /\ Cardinality(owners) = 1
                    /\ \A i \in 1..Len(m_pMotorsInfo) :
                          m_pMotorsInfo'[i].m_ControlMode =
                             IF i \in owners THEN lastOp'.mode
                             ELSE m_pMotorsInfo[i].m_ControlMode]_vars

\* C19: the entry at index i (counted from 0) has controller id primaryId + i,
\* so the ids of a group are pairwise distinct, contiguous and in insertion order.
C19_IdsContiguous ==
    /\ \A i \in 1..Len(m_pMotorsInfo) : m_pMotorsInfo[i].m_CanId = m_MasterCanId + (i - 1)
    /\ \A i, j \in 1..Len(m_pMotorsInfo) :
          i < j => m_pMotorsInfo[i].m_CanId < m_pMotorsInfo[j].m_CanId

\* C19 witness: a group that a successful AddEntry has just grown to 4 entries
\* after another successful AddEntry.
C19_Witness ==
    /\ lastOp.op = "Add" /\ lastOp.result = TRUE
    /\ nCalls >= 2
    /\ Len(m_pMotorsInfo) = 4
    /\ m_pMotorsInfo[4].m_CanId = m_MasterCanId + 3

\* the follower links the last operation commanded, in order
FollowLinks == SelectSeq(issued, LAMBDA c : c.ctrl = "Follower")

\* C20: an operation that gives entries the mode Follower (Create with
\* nonPrimaryMode Follower, AddEntry(Follower), a successful
\* SetEntryMode(id, Follower)) commands each of them a follower link to the
\* primary's id, and in every state the controller of a Follower entry
\* follows the primary's id.
C20_FollowerWired ==
    /\ \A i \in 1..Len(m_pMotorsInfo) :
          m_pMotorsInfo[i].m_ControlMode = FOLLOW =>
              /\ m_pMotorsInfo[i].m_pTalonSrx.ctrl = "Follower"
              /\ m_pMotorsInfo[i].m_pTalonSrx.follows = m_pMotorsInfo[1].m_CanId
    /\ (lastOp.op = "Create" /\ lastOp.mode = FOLLOW) =>
          FollowLinks = [k \in 1..(Len(m_pMotorsInfo) - 1) |->
                            FollowCmd(m_pMotorsInfo[k + 1].m_CanId, lastOp.canId)]
    /\ (lastOp.op = "Add" /\ lastOp.mode = FOLLOW /\ lastOp.result) =>
          FollowLinks = <<FollowCmd(m_pMotorsInfo[Len(m_pMotorsInfo)].m_CanId,
                                    m_pMotorsInfo[1].m_CanId)>>
    /\ (lastOp.op = "SetMode" /\ lastOp.mode = FOLLOW /\ lastOp.result) =>
          FollowLinks = <<FollowCmd(lastOp.canId, m_pMotorsInfo[1].m_CanId)>>

\* C20 witness: an entry other than the first that a successful
\* SetEntryMode(id, Follower) has just wired.
C20_Witness ==
    /\ lastOp.op = "SetMode" /\ lastOp.mode = FOLLOW /\ lastOp.result
    /\ lastOp.canId = m_MasterCanId + 1
    /\ m_pMotorsInfo[2].m_ControlMode = FOLLOW
    /\ m_pMotorsInfo[2].m_pTalonSrx = [ctrl |-> "Follower", follows |-> m_MasterCanId]

\* C21: SetBrakeMode leaves the controller of every entry in Brake and
\* SetCoastMode leaves it in Coast, whatever the entry's mode is, changes no
\* entry and commands no output; after Create every constructed entry's
\* controller is in Coast.
C21_NeutralModeForAll ==
    /\ [](lastOp.op = "Create" =>
            /\ Len(talonConfig) = Len(m_pMotorsInfo)
            /\ \A k \in 1..Len(m_pMotorsInfo) : talonConfig[k].neutral = "Coast")
    /\ [][lastOp'.op \in {"SetBrakeMode", "SetCoastMode"} =>
            /\ \A k \in 1..Len(m_pMotorsInfo) :
                  talonConfig'[k].neutral =
                     IF lastOp'.op = "SetBrakeMode" THEN "Brake" ELSE "Coast"
            /\ m_pMotorsInfo' = m_pMotorsInfo
            /\ m_NumMotors' = m_NumMotors
            /\ issued' = <<>>]_vars

\* C21 witness: a group holding a Follower and a Custom entry right after
\* SetBrakeMode, every controller in Brake.
C21_Witness ==
    /\ lastOp.op = "SetBrakeMode"
    /\ \E k \in 1..Len(m_pMotorsInfo) : m_pMotorsInfo[k].m_ControlMode = FOLLOW
    /\ \E k \in 1..Len(m_pMotorsInfo) : m_pMotorsInfo[k].m_ControlMode = CUSTOM
    /\ \A k \in 1..Len(talonConfig) : talonConfig[k].neutral = "Brake"

\* C22 (as claimed): on a group created with a sensor of any kind
\* TareEncoder sets the sensor position of entry 0 to 0 and GetEncoderValue
\* returns it; on a group created without a sensor TareEncoder makes no
\* controller call and GetEncoderValue returns 0; no entry but entry 0 has a
\* sensor configured.
C22_EncoderAnySensor ==
    /\ lastOp.op = "TareEncoder" =>
          IF m_Sensor # FEEDBACK_DEVICE_NONE
          THEN sensorPosition = 0
          ELSE configCalls = <<>>
    /\ lastOp.op = "GetEncoderValue" =>
          lastOp.value = IF m_Sensor # FEEDBACK_DEVICE_NONE THEN sensorPosition ELSE 0
    /\ \A k \in 2..Len(talonConfig) : talonConfig[k].sensor = FEEDBACK_DEVICE_NONE
----
\* ===================== Properties of the drive control =====================

\* the last handler was a pass of TeleopPeriodic
Ticked == event = "TeleopPeriodic"

\* the Set() calls the alignment path made in the last handler
AlignCmds == SelectSeq(driveLog, LAMBDA c : c.path = "align")

\* the Set() calls the inching and manual-drive paths made in the last handler
HumanCmds == SelectSeq(driveLog, LAMBDA c : c.path \in {"inch", "manual"})

\* C2: from ManualControl an alignment starts in a step exactly when that
\* step reads a pressed POV value and the POV value read before it was -1;
\* a POV input that stays pressed, during or after an alignment, starts none.
C2_OneAlignPerPress ==
    [][m_RobotDriveState = MANUAL_CONTROL =>
         ((m_RobotDriveState' = DIRECTIONAL_ALIGN)
            <=> (lastPovValue = -1 /\ lastPovValue' # -1))]_vars

\* C2 witness: a tick in ManualControl that read a pressed POV value and
\* started nothing (the input was already pressed on the tick before).
C2_Witness ==
    /\ Ticked /\ tick.preState = MANUAL_CONTROL
    /\ tick.pov # -1 /\ ~tick.started
    /\ m_RobotDriveState = MANUAL_CONTROL

\* C3: on the tick that starts an alignment from heading h to destination d,
\* exactly one direction is chosen; it is left iff (h-d > 0) differs from
\* (|h-d| > 180); and unless h and d are exactly 180 apart it is the shorter
\* way round, a left turn covering (h-d) mod 360 and a right turn (d-h) mod 360.
C3_ShorterTurn ==
    (Ticked /\ tick.started) =>
        LET h == tick.gyro
            d == destinationAngle
            leftWay == (h - d) % 360
            rightWay == (d - h) % 360
        IN /\ h \in 0..359 /\ d \in {0, 90, 180, 270}
           /\ tick.bTurnLeft # tick.bTurnRight
           /\ tick.bTurnLeft <=> ((h - d > 0) # (h - d > 180 \/ d - h > 180))
           /\ leftWay # 180 =>
                 /\ tick.bTurnLeft => leftWay <= rightWay
                 /\ tick.bTurnRight => rightWay <= leftWay

\* C3 witness: an alignment started at heading 350 for destination 0, turning right.
C3_Witness ==
    /\ Ticked /\ tick.started
    /\ tick.gyro = 350 /\ destinationAngle = 0
    /\ tick.bTurnRight /\ ~tick.bTurnLeft

\* C4: in uninterrupted teleop an alignment always comes to an end; a tick
\* that finds the safety timer above DIRECTIONAL_ALIGN_MAX_TIME_S ends it,
\* whatever the heading is, and the alignment path then has commanded both
\* drive sides OFF and has stopped and reset the safety timer.
C4_TimeoutEndsAlign ==
    /\ (m_RobotDriveState = DIRECTIONAL_ALIGN) ~> (m_RobotDriveState = MANUAL_CONTROL)
    /\ [][(event' = "TeleopPeriodic" /\ m_RobotDriveState = DIRECTIONAL_ALIGN
             /\ m_pDirectionalAlignTimer.t > DIRECTIONAL_ALIGN_MAX_TIME_S) =>
            /\ m_RobotDriveState' = MANUAL_CONTROL
            /\ SubSeq(driveLog', 1, 2) = <<[path |-> "align", side |-> "left", value |-> 0],
                                            [path |-> "align", side |-> "right", value |-> 0]>>
            /\ m_pDirectionalAlignTimer' = [running |-> FALSE, t |-> 0]]_vars

\* C4 witness: an alignment ended by the safety timer alone: the heading was
\* outside the band and no fresh press was seen.
C4_Witness ==
    /\ Ticked /\ tick.preState = DIRECTIONAL_ALIGN /\ tick.exited /\ tick.timedOut
    /\ ~tick.latchSeen
    /\ (tick.gyro < tick.preDest - 1 \/ tick.gyro > tick.preDest + 1)
    /\ m_RobotDriveState = MANUAL_CONTROL

\* C5: a tick in DirectionalAlign that reads a heading equal to the
\* destination angle leaves the state ManualControl, and the alignment path
\* has commanded both drive sides to 0.
C5_ExactHeadingEndsAlign ==
    (Ticked /\ tick.preState = DIRECTIONAL_ALIGN /\ tick.gyro = tick.preDest) =>
        /\ m_RobotDriveState = MANUAL_CONTROL
        /\ AlignCmds = <<[path |-> "align", side |-> "left", value |-> 0],
                         [path |-> "align", side |-> "right", value |-> 0]>>

\* C5 witness: an alignment ended by the heading alone, read equal to the destination.
C5_Witness ==
    /\ Ticked /\ tick.preState = DIRECTIONAL_ALIGN /\ tick.gyro = tick.preDest
    /\ ~tick.timedOut /\ ~tick.latchSeen /\ tick.exited

\* C6: after a tick that leaves the drive state DIRECTIONAL_ALIGN, neither
\* the inching path nor the manual drive path has called Set() on a drive group.
C6_AlignBlocksHumanInput ==
    (Ticked /\ m_RobotDriveState = DIRECTIONAL_ALIGN) =>
        /\ HumanCmds = <<>>
        /\ ~tick.inched

\* C6 witness: a tick that found an alignment in progress and left it in progress.
C6_Witness ==
    /\ Ticked /\ tick.preState = DIRECTIONAL_ALIGN
    /\ m_RobotDriveState = DIRECTIONAL_ALIGN
    /\ driveLog = <<>>

\* the alignment path commanded both drive sides OFF, first thing in the tick
AlignOff(log) ==
    /\ Len(log) >= 2
    /\ log[1] = [path |-> "align", side |-> "left", value |-> 0]
    /\ log[2] = [path |-> "align", side |-> "right", value |-> 0]

\* C12 (as claimed): a tick in DirectionalAlign that observes the POV going
\* from pressed to -1 exits to ManualControl, commands both drive sides OFF
\* and resets the safety timer.
C12_ReleaseCancels ==
    [][(event' = "TeleopPeriodic" /\ m_RobotDriveState = DIRECTIONAL_ALIGN
          /\ lastPovValue # -1 /\ lastPovValue' = -1) =>
         /\ m_RobotDriveState' = MANUAL_CONTROL
         /\ AlignOff(driveLog')
         /\ m_pDirectionalAlignTimer' = [running |-> FALSE, t |-> 0]]_vars

\* C12 (amended): the alignment is cancelled by the next press, not by the
\* release: a tick in DirectionalAlign that observes the POV going from -1
\* to pressed exits to ManualControl, commands both drive sides OFF and
\* stops and resets the safety timer; a tick that observes the POV going
\* from pressed to -1 exits only if the heading is in the band or the
\* safety timer has expired.
C12_PressCancels ==
    [][(event' = "TeleopPeriodic" /\ m_RobotDriveState = DIRECTIONAL_ALIGN) =>
         /\ (lastPovValue = -1 /\ lastPovValue' # -1) =>
               /\ m_RobotDriveState' = MANUAL_CONTROL
               /\ AlignOff(driveLog')
               /\ m_pDirectionalAlignTimer' = [running |-> FALSE, t |-> 0]
         /\ (lastPovValue # -1 /\ lastPovValue' = -1
               /\ m_RobotDriveState' = MANUAL_CONTROL) =>
               \/ (tick'.gyro >= destinationAngle - 1 /\ tick'.gyro <= destinationAngle + 1)
               \/ m_pDirectionalAlignTimer.t > DIRECTIONAL_ALIGN_MAX_TIME_S]_vars

\* C12 witness: an alignment ended by a fresh press alone: the POV was -1 on
\* the tick before, the heading was outside the band and the timer had not expired.
C12_Witness ==
    /\ Ticked /\ tick.preState = DIRECTIONAL_ALIGN
    /\ ~tick.prePressed /\ tick.pov # -1
    /\ tick.exited /\ ~tick.timedOut
    /\ (tick.gyro < tick.preDest - 1 \/ tick.gyro > tick.preDest + 1)
    /\ m_RobotDriveState = MANUAL_CONTROL

\* C13: a tick in DirectionalAlign that observes the POV going from pressed
\* to -1, with the heading outside the band and the safety timer not
\* expired, leaves the state DIRECTIONAL_ALIGN and commands no motor.
C13_ReleaseKeepsAligning ==
    [][(event' = "TeleopPeriodic" /\ m_RobotDriveState = DIRECTIONAL_ALIGN
          /\ lastPovValue # -1 /\ lastPovValue' = -1
          /\ (tick'.gyro < destinationAngle - 1 \/ tick'.gyro > destinationAngle + 1)
          /\ m_pDirectionalAlignTimer.t <= DIRECTIONAL_ALIGN_MAX_TIME_S) =>
         /\ m_RobotDriveState' = DIRECTIONAL_ALIGN
         /\ driveLog' = <<>>
         /\ leftDrive' = leftDrive /\ rightDrive' = rightDrive]_vars

\* C13 witness: a tick in DirectionalAlign that observed the release and
\* left the alignment going, with no motor command.
C13_Witness ==
    /\ Ticked /\ tick.preState = DIRECTIONAL_ALIGN
    /\ tick.prePressed /\ tick.pov = -1
    /\ m_RobotDriveState = DIRECTIONAL_ALIGN
    /\ driveLog = <<>>

\* C14 (as claimed): a tick in DirectionalAlign that reads a heading within
\* 1 degree of the destination angle, measured on the 0..359 circle, exits
\* to ManualControl.
C14_BandOnCircle ==
    (Ticked /\ tick.preState = DIRECTIONAL_ALIGN
       /\ tick.preDest \in {0, 90, 180, 270} /\ tick.gyro \in 0..359
       /\ ((tick.gyro - tick.preDest) % 360) \in {359, 0, 1}) =>
        m_RobotDriveState = MANUAL_CONTROL

\* C15 (as claimed): an alignment that starts with the heading exactly 180
\* degrees from the destination angle turns left.
C15_HalfTurnIsLeft ==
    (Ticked /\ tick.started /\ Abs(tick.gyro - destinationAngle) = 180) =>
        (tick.bTurnLeft /\ ~tick.bTurnRight)

\* C15 (amended): an alignment that starts with the heading exactly 180
\* degrees from the destination angle takes the direction of the sign of
\* heading - destination, without inversion: left when the heading is the
\* larger (heading 180 / destination 0), right when it is the smaller
\* (heading 0 / destination 180).
C15_HalfTurnBySign ==
    (Ticked /\ tick.started /\ Abs(tick.gyro - destinationAngle) = 180) =>
        /\ tick.bTurnLeft <=> (tick.gyro - destinationAngle = 180)
        /\ tick.bTurnRight <=> (tick.gyro - destinationAngle = -180)
        /\ tick.bTurnLeft # tick.bTurnRight

\* C15 witness: an alignment started at heading 0 for destination 180, turning right.
C15_Witness ==
    /\ Ticked /\ tick.started
    /\ tick.gyro = 0 /\ destinationAngle = 180
    /\ tick.bTurnRight /\ ~tick.bTurnLeft

\* C16: whenever an alignment starts, the POV value p read by that tick is
\* one of 0, 45, ..., 315 (never -1) and the destination angle is
\* 90 * (((p + 45) mod 360) div 90), one of 0, 90, 180, 270: 315 and 0 give 0,
\* 45 and 90 give 90, 135 and 180 give 180, 225 and 270 give 270.
C16_DestinationFromPov ==
    (Ticked /\ tick.started) =>
        LET p == tick.pov
        IN /\ p \in {0, 45, 90, 135, 180, 225, 270, 315}
           /\ destinationAngle = 90 * (((p + 45) % 360) \div 90)
           /\ destinationAngle \in {0, 90, 180, 270}
           /\ p \in {315, 0} => destinationAngle = 0
           /\ p \in {45, 90} => destinationAngle = 90
           /\ p \in {135, 180} => destinationAngle = 180
           /\ p \in {225, 270} => destinationAngle = 270

\* C16 witness: an alignment started by the POV value 315, for destination 0.
C16_Witness ==
    /\ Ticked /\ tick.started
    /\ tick.pov = 315 /\ destinationAngle = 0
    /\ m_RobotDriveState = DIRECTIONAL_ALIGN

\* C17: a tick that ends an alignment leaves ManualControl with the latch
\* false, and from ManualControl the state becomes DirectionalAlign only in
\* a tick that reads a pressed POV after a POV of -1 was read: an alignment
\* that ended is not retried while the input stays as it is.
C17_NoRetry ==
    /\ []((Ticked /\ tick.exited) =>
            (m_RobotDriveState = MANUAL_CONTROL /\ ~bStateChangeAllowed))
    /\ [][(m_RobotDriveState = MANUAL_CONTROL /\ m_RobotDriveState' = DIRECTIONAL_ALIGN) =>
            (event' = "TeleopPeriodic" /\ lastPovValue = -1 /\ lastPovValue' # -1
               /\ ~bStateChangeAllowed)]_vars

\* C17 witness: an alignment ended by the safety timer while the POV was
\* held pressed; the machine is in ManualControl with the latch false.
C17_Witness ==
    /\ Ticked /\ tick.exited /\ tick.timedOut
    /\ tick.prePressed /\ tick.pov # -1
    /\ m_RobotDriveState = MANUAL_CONTROL /\ ~bStateChangeAllowed

\* the Set() calls the inching path made in the last handler
InchingCmds == SelectSeq(driveLog, LAMBDA c : c.path = "inch")

\* C23: a tick that reaches DirectionalInch with none of the four inching
\* buttons pressed gets "no action" from it: the inching path commands no
\* drive group and the inching timer is left as it was.
C23_NoButtonNoInch ==
    [][(event' = "TeleopPeriodic" /\ m_RobotDriveState' = MANUAL_CONTROL
          /\ tick'.buttons = {}) =>
         /\ ~tick'.inched
         /\ tick'.inchSteps = <<>>
         /\ SelectSeq(driveLog', LAMBDA c : c.path = "inch") = <<>>
         /\ m_pInchingDriveTimer' = m_pInchingDriveTimer]_vars

\* C23 witness: a tick with no inching button pressed that went on to drive
\* from the joystick.
C23_Witness ==
    /\ Ticked /\ m_RobotDriveState = MANUAL_CONTROL
    /\ tick.buttons = {} /\ ~tick.inched
    /\ tick.x # 0
    /\ InchingCmds = <<>>
    /\ HumanCmds # <<>>

\* C24: a tick in which an inching button is pressed runs, in this order:
\* timer reset, timer start, Set of the selected speeds on the left and the
\* right side, the wait for INCHING_DRIVE_DELAY_S, Set(OFF) on both sides,
\* timer stop, timer reset; it reports "handled", both drive sides are left
\* OFF, the timer is left stopped at 0 and the joystick is not read.
C24_InchSequence ==
    (Ticked /\ tick.inched) =>
        LET st == tick.inchSteps
        IN /\ Len(st) = 9
           /\ st[1] = [op |-> "Reset", side |-> "timer", value |-> 0]
           /\ st[2] = [op |-> "Start", side |-> "timer", value |-> 0]
           /\ st[3].op = "Set" /\ st[3].side = "left"
           /\ st[4].op = "Set" /\ st[4].side = "right"
           /\ (st[3].value # 0 \/ st[4].value # 0)
           /\ "FORWARD" \in tick.buttons =>
                 /\ st[3].value = INCHING_DRIVE_SPEED * LEFT_DRIVE_FORWARD_SCALAR
                 /\ st[4].value = INCHING_DRIVE_SPEED * RIGHT_DRIVE_FORWARD_SCALAR
           /\ st[5] = [op |-> "Wait", side |-> "timer", value |-> INCHING_DRIVE_DELAY_S]
           /\ st[6] = [op |-> "Set", side |-> "left", value |-> OFF]
           /\ st[7] = [op |-> "Set", side |-> "right", value |-> OFF]
           /\ st[8] = [op |-> "Stop", side |-> "timer", value |-> 0]
           /\ st[9] = [op |-> "Reset", side |-> "timer", value |-> 0]
           /\ InchingCmds = <<[path |-> "inch", side |-> "left", value |-> st[3].value],
                              [path |-> "inch", side |-> "right", value |-> st[4].value],
                              [path |-> "inch", side |-> "left", value |-> OFF],
                              [path |-> "inch", side |-> "right", value |-> OFF]>>
           /\ leftDrive = OFF /\ rightDrive = OFF
           /\ m_pInchingDriveTimer = [running |-> FALSE, t |-> 0]
           /\ SelectSeq(driveLog, LAMBDA c : c.path = "manual") = <<>>
           /\ tick.buttons # {}

\* C24 witness: a tick that inched to the left and left both sides OFF.
C24_Witness ==
    /\ Ticked /\ tick.inched
    /\ tick.buttons = {"LEFT"}
    /\ Len(InchingCmds) = 4
    /\ leftDrive = OFF /\ rightDrive = OFF

\* C25 (as claimed): no tick commands the drive groups from both the
\* alignment path and the human-input path.
C25_OnePathPerTick ==
    Ticked => (AlignCmds = <<>> \/ HumanCmds = <<>>)

\* C25 (amended): a tick commands the drive groups from both paths exactly
\* when it ends an alignment, and then the alignment path's two OFF commands
\* come first and the human-input path's commands follow; every other tick,
\* the one that starts an alignment included, commands from one path only.
C25_BothPathsOnlyAtExit ==
    Ticked =>
        /\ (AlignCmds # <<>> /\ HumanCmds # <<>>) <=> tick.exited
        /\ driveLog = AlignCmds \o HumanCmds
        /\ tick.exited => AlignOff(AlignCmds) /\ Len(AlignCmds) = 2
        /\ tick.started => HumanCmds = <<>>

\* C25 witness: the tick that ended an alignment went on to drive the
\* motors from the joystick.
C25_Witness ==
    /\ Ticked /\ tick.exited
    /\ AlignCmds # <<>>
    /\ \E k \in 1..Len(driveLog) : driveLog[k].path = "manual" /\ driveLog[k].value # 0
    /\ leftDrive # OFF

\* C26: the tick that starts an alignment gives exactly one of the two turn
\* commands, the left turn as left * REVERSE and right * FORWARD, the right
\* turn as left * FORWARD and right * REVERSE, and nothing else; a tick that
\* finds an alignment in progress gives no turn command.
C26_OneTurnCommand ==
    /\ (Ticked /\ tick.started) =>
          /\ tick.bTurnLeft # tick.bTurnRight
          /\ tick.bTurnLeft =>
                driveLog = <<[path |-> "align", side |-> "left",
                              value |-> DIRECTIONAL_ALIGN_DRIVE_SPEED * LEFT_DRIVE_REVERSE_SCALAR],
                             [path |-> "align", side |-> "right",
                              value |-> DIRECTIONAL_ALIGN_DRIVE_SPEED * RIGHT_DRIVE_FORWARD_SCALAR]>>
          /\ tick.bTurnRight =>
                driveLog = <<[path |-> "align", side |-> "left",
                              value |-> DIRECTIONAL_ALIGN_DRIVE_SPEED * LEFT_DRIVE_FORWARD_SCALAR],
                             [path |-> "align", side |-> "right",
                              value |-> DIRECTIONAL_ALIGN_DRIVE_SPEED * RIGHT_DRIVE_REVERSE_SCALAR]>>
    /\ (Ticked /\ tick.preState = DIRECTIONAL_ALIGN) =>
          \A k \in 1..Len(AlignCmds) : AlignCmds[k].value = OFF

\* C26 witness: an alignment started with the heading equal to the
\* destination: the right turn was commanded.
C26_Witness ==
    /\ Ticked /\ tick.started
    /\ tick.gyro = destinationAngle
    /\ tick.bTurnRight /\ ~tick.bTurnLeft
    /\ Len(driveLog) = 2

\* C27: Trim(v, upper, lower) is 0 for every v with lower < v < upper and
\* is v itself for every v >= upper and every v <= lower.
C27_TrimDeadBand ==
    util.fn = "Trim" =>
        /\ util.lower < 0 /\ 0 < util.upper
        /\ (util.lower < util.value /\ util.value < util.upper) => util.out = 0
        /\ (util.value >= util.upper \/ util.value <= util.lower) => util.out = util.value

\* C27 witness: Trim called with the value equal to the upper limit of the
\* dead band, returned as it is.
C27_Witness ==
    /\ util.fn = "Trim"
    /\ util.value = util.upper /\ util.upper = JOYSTICK_TRIM_UPPER_LIMIT
    /\ util.out = util.value

\* C28: Limit(v, upperBound, lowerBound) lies in [lowerBound, upperBound]:
\* it is v when v is in the range, upperBound when v is above it, lowerBound
\* when v is below it; limiting the result again changes nothing.
C28_LimitClamps ==
    util.fn = "Limit" =>
        /\ util.lower <= util.out /\ util.out <= util.upper
        /\ (util.lower <= util.value /\ util.value <= util.upper) => util.out = util.value
        /\ util.value > util.upper => util.out = util.upper
        /\ util.value < util.lower => util.out = util.lower
        /\ util.again = util.out

\* C28 witness: Limit called with a value below the range, returned as the
\* lower bound.
C28_Witness ==
    /\ util.fn = "Limit"
    /\ util.value < util.lower
    /\ util.out = util.lower /\ util.again = util.lower

\* C29 (as claimed): whenever a teleop tick can start with the drive state
\* DIRECTIONAL_ALIGN, the alignment safety timer is running.
C29_TimerRunsInAlign ==
    (robotMode = "TELEOP" /\ m_RobotDriveState = DIRECTIONAL_ALIGN) =>
        m_pDirectionalAlignTimer.running

\* C30: the latch is false after every invocation of DirectionalAlign; a
\* tick finds it true after the latch update only if it reads a pressed POV
\* after a POV of -1, and that tick starts an alignment when it began in
\* MANUAL_CONTROL and ends one when it began in DIRECTIONAL_ALIGN.
C30_LatchConsumed ==
    /\ ~bStateChangeAllowed
    /\ (Ticked /\ tick.latchSeen) =>
          /\ ~tick.prePressed /\ tick.pov # -1
          /\ tick.preState = MANUAL_CONTROL => tick.started
          /\ tick.preState = DIRECTIONAL_ALIGN => tick.exited

\* C30 witness: a tick that found the latch true after the update and
\* consumed it by starting an alignment.
C30_Witness ==
    /\ Ticked /\ tick.latchSeen /\ tick.started
    /\ m_RobotDriveState = DIRECTIONAL_ALIGN
    /\ ~bStateChangeAllowed

\* C31: a tick in DIRECTIONAL_ALIGN that observes a fresh press (the POV was
\* -1 on the tick before and is pressed now) ends the alignment on that tick:
\* both drive sides are commanded OFF, the safety timer is stopped and reset
\* and the state is MANUAL_CONTROL; no alignment is started on that tick, nor
\* on any later tick that finds the POV still pressed.
C31_FreshPressEndsAlign ==
    [][(event' = "TeleopPeriodic") =>
         /\ (m_RobotDriveState = DIRECTIONAL_ALIGN
               /\ lastPovValue = -1 /\ lastPovValue' # -1) =>
               /\ m_RobotDriveState' = MANUAL_CONTROL
               /\ tick'.exited /\ ~tick'.started
               /\ AlignOff(driveLog')
               /\ m_pDirectionalAlignTimer' = [running |-> FALSE, t |-> 0]
               /\ ~bStateChangeAllowed'
         /\ (m_RobotDriveState = MANUAL_CONTROL
               /\ lastPovValue # -1 /\ lastPovValue' # -1) =>
               /\ m_RobotDriveState' = MANUAL_CONTROL
               /\ ~tick'.started]_vars

\* C31 witness: the tick that observed the fresh press ended the alignment
\* and started none; the press is still the last POV value seen.
C31_Witness ==
    /\ Ticked /\ tick.preState = DIRECTIONAL_ALIGN
    /\ ~tick.prePressed /\ tick.pov # -1 /\ lastPovValue = tick.pov
    /\ tick.exited /\ ~tick.started
    /\ AlignOff(driveLog)
    /\ m_RobotDriveState = MANUAL_CONTROL
    /\ m_pDirectionalAlignTimer = [running |-> FALSE, t |-> 0]
    /\ ~bStateChangeAllowed

\* C32: the state is MANUAL_CONTROL at first; it goes from MANUAL_CONTROL to
\* DIRECTIONAL_ALIGN only on a tick that reads a pressed POV after a POV of
\* -1, and from DIRECTIONAL_ALIGN to MANUAL_CONTROL only on a tick that finds
\* the heading in the band, the safety timer above the maximum or a fresh
\* press; a change between two pressed POV values changes nothing: on such a
\* tick MANUAL_CONTROL stays, and DIRECTIONAL_ALIGN ends only by the band or
\* the timer.
C32_Transitions ==
    /\ m_RobotDriveState = MANUAL_CONTROL
    /\ [][/\ (m_RobotDriveState = MANUAL_CONTROL /\ m_RobotDriveState' = DIRECTIONAL_ALIGN) =>
                /\ event' = "TeleopPeriodic"
                /\ lastPovValue = -1 /\ lastPovValue' # -1
          /\ (m_RobotDriveState = DIRECTIONAL_ALIGN /\ m_RobotDriveState' = MANUAL_CONTROL) =>
                /\ event' = "TeleopPeriodic"
                /\ \/ (tick'.gyro >= destinationAngle - 1 /\ tick'.gyro <= destinationAngle + 1)
                   \/ m_pDirectionalAlignTimer.t > DIRECTIONAL_ALIGN_MAX_TIME_S
                   \/ (lastPovValue = -1 /\ lastPovValue' # -1)
          /\ (event' = "TeleopPeriodic" /\ lastPovValue # -1 /\ lastPovValue' # -1
                /\ lastPovValue' # lastPovValue /\ m_RobotDriveState' # m_RobotDriveState) =>
                /\ m_RobotDriveState = DIRECTIONAL_ALIGN
                /\ \/ (tick'.gyro >= destinationAngle - 1 /\ tick'.gyro <= destinationAngle + 1)
                   \/ m_pDirectionalAlignTimer.t > DIRECTIONAL_ALIGN_MAX_TIME_S]_vars

\* C32 witness: an alignment to 180 started by the press of 225 while the
\* POV was -1, still going on after a tick that read another pressed value
\* or the same one, with the heading outside the band.
C32_Witness ==
    /\ Ticked /\ tick.preState = DIRECTIONAL_ALIGN /\ tick.prePressed
    /\ tick.pov # -1 /\ ~tick.exited
    /\ destinationAngle = 180 /\ tick.gyro = 91
    /\ m_RobotDriveState = DIRECTIONAL_ALIGN

\* the Set() calls the joystick path made in the last handler
ManualCmds == SelectSeq(driveLog, LAMBDA c : c.path = "manual")

\* C33: in a tick where DirectionalInch returns true no joystick-derived
\* command is issued and both drive groups are left at OFF by the last two
\* commands of the tick; in a tick that leaves the state DIRECTIONAL_ALIGN
\* neither the inching path nor the joystick path commands the groups, and
\* the inching buttons are read before the joystick.
C33_InchPreemptsManual ==
    Ticked =>
        /\ tick.inched =>
              /\ ManualCmds = <<>>
              /\ Len(driveLog) >= 2
              /\ driveLog[Len(driveLog) - 1] = DriveCmd("inch", "left", OFF)
              /\ driveLog[Len(driveLog)] = DriveCmd("inch", "right", OFF)
              /\ leftDrive = OFF /\ rightDrive = OFF
        /\ m_RobotDriveState = DIRECTIONAL_ALIGN =>
              /\ InchingCmds = <<>> /\ ManualCmds = <<>> /\ ~tick.inched
        /\ ManualCmds # <<>> => (~tick.inched /\ InchingCmds = <<>>)

\* C33 witness: a tick in which the backward inch was performed: the groups
\* were driven, switched off again, and the joystick was not used.
C33_Witness ==
    /\ Ticked /\ tick.inched /\ tick.buttons = {"BACKWARD"}
    /\ Len(InchingCmds) = 4 /\ ManualCmds = <<>>
    /\ leftDrive = OFF /\ rightDrive = OFF

\* the priority of the inching buttons and the scalars of each maneuver
InchPriority == <<"FORWARD", "BACKWARD", "LEFT", "RIGHT">>
ManeuverScalars(button) ==
    CASE button = "FORWARD"  -> <<LEFT_DRIVE_FORWARD_SCALAR, RIGHT_DRIVE_FORWARD_SCALAR>>
      [] button = "BACKWARD" -> <<LEFT_DRIVE_REVERSE_SCALAR, RIGHT_DRIVE_REVERSE_SCALAR>>
      [] button = "LEFT"     -> <<LEFT_DRIVE_REVERSE_SCALAR, RIGHT_DRIVE_FORWARD_SCALAR>>
      [] button = "RIGHT"    -> <<LEFT_DRIVE_FORWARD_SCALAR, RIGHT_DRIVE_REVERSE_SCALAR>>
\* the pressed button that comes first in the priority
FirstPressed(buttons) ==
    InchPriority[CHOOSE k \in 1..Len(InchPriority) :
                    /\ InchPriority[k] \in buttons
                    /\ \A j \in 1..(k - 1) : InchPriority[j] \notin buttons]

\* C34: a tick that reads one or more inching buttons pressed performs
\* exactly one maneuver, the one of the pressed button that comes first in
\* forward > backward > left > right: the left and right groups are set once
\* to that maneuver's scalars times INCHING_DRIVE_SPEED and once to OFF.
C34_InchPriority ==
    (Ticked /\ tick.buttons # {}) =>
        LET sc == ManeuverScalars(FirstPressed(tick.buttons))
        IN /\ tick.inched
           /\ InchingCmds = <<DriveCmd("inch", "left", sc[1] * INCHING_DRIVE_SPEED),
                              DriveCmd("inch", "right", sc[2] * INCHING_DRIVE_SPEED),
                              DriveCmd("inch", "left", OFF),
                              DriveCmd("inch", "right", OFF)>>

\* C34 witness: backward, left and right pressed together: the backward
\* maneuver alone was performed.
C34_Witness ==
    /\ Ticked /\ tick.buttons = {"BACKWARD", "LEFT", "RIGHT"} /\ tick.inched
    /\ Len(InchingCmds) = 4
    /\ InchingCmds[1].value = LEFT_DRIVE_REVERSE_SCALAR * INCHING_DRIVE_SPEED
    /\ InchingCmds[2].value = RIGHT_DRIVE_REVERSE_SCALAR * INCHING_DRIVE_SPEED

\* C35: every call of DirectionalInch returns, whatever state (running or
\* stopped, zero or not) it finds the inching timer in: the timer is reset
\* and started before the busy wait, so with a started timer's value
\* increasing the wait is left once the value has reached
\* INCHING_DRIVE_DELAY_S, and the call returns true with the timer stopped
\* and reset.
C35_InchTerminates ==
    /\ (inchCall.pc # InchReturned) ~> (inchCall.pc = InchReturned)
    /\ [][(inchCall.pc # InchReturned /\ inchCall'.pc = InchReturned) =>
            /\ inchCall'.result
            /\ inchCall'.timer = [running |-> FALSE, t |-> 0]]_vars
    /\ [][(inchCall.pc # InchReturned /\ inchCall.steps[inchCall.pc].op = "Wait"
             /\ inchCall'.pc # inchCall.pc) =>
            /\ inchCall.timer.running
            /\ inchCall.timer.t >= INCHING_DRIVE_DELAY_S]_vars

\* C35 witness: a call that found the timer stopped at a non-zero value has
\* returned true, after the clock moved on during its busy wait.
C35_Witness ==
    /\ inchCall.called /\ inchCall.pc = InchReturned /\ inchCall.result
    /\ ~inchCall.before.running /\ inchCall.before.t >= INCHING_DRIVE_DELAY_S
    /\ inchCall.loops > 0
    /\ inchCall.timer = [running |-> FALSE, t |-> 0]

\* C36: both speeds the manual drive path hands to Set() lie in
\* [DRIVE_MOTOR_LOWER_LIMIT, DRIVE_MOTOR_UPPER_LIMIT], for every x, y and
\* slow-drive reading in [-1, 1], every throttle and both values of the
\* drive-swap flag; the slow-drive input is used as the x input only when the
\* trimmed normal x input is exactly 0, and otherwise has no effect on the speeds.
C36_ManualWithinLimits ==
    manualCall.called =>
        LET c == manualCall
            o == manualCall.out
        IN /\ o.leftSpeed >= DRIVE_MOTOR_LOWER_LIMIT /\ o.leftSpeed <= DRIVE_MOTOR_UPPER_LIMIT
           /\ o.rightSpeed >= DRIVE_MOTOR_LOWER_LIMIT /\ o.rightSpeed <= DRIVE_MOTOR_UPPER_LIMIT
           /\ o.xTrim = 0 => o.xAxisDrive = o.xAxisSlowDrive
           /\ o.xTrim # 0 =>
                 /\ o.xAxisDrive \in {o.xTrim, 0 - o.xTrim}
                 /\ \A s2 \in AxisGrid :
                       LET o2 == ManualDrive(c.x, c.y, s2, c.throttle, c.swap)
                       IN o2.leftSpeed = o.leftSpeed /\ o2.rightSpeed = o.rightSpeed

\* C36 witness: with the drive swapped, full forward y and an x reading
\* inside the dead band, the slow-drive input takes the place of x and the
\* right speed, 1.5 by the drive equation, is set at the upper limit.
C36_Witness ==
    /\ manualCall.called /\ manualCall.swap
    /\ manualCall.x = 8 /\ manualCall.y = -100 /\ manualCall.slow = 100
    /\ manualCall.throttle = 100
    /\ manualCall.out.xTrim = 0 /\ manualCall.out.xAxisDrive = 50
    /\ RightDriveEquation(manualCall.out.xAxisDrive, manualCall.out.yAxisDrive) = 150
    /\ manualCall.out.rightSpeed = DRIVE_MOTOR_UPPER_LIMIT
    /\ manualCall.out.leftSpeed = -50

\* C37: TurretSequence commands the turret motor once per call; the value is
\* never negative when the left hall sensor reads false and never positive
\* when the right hall sensor reads false; when the axis asks for the
\* movement a sensor forbids, and when the axis is 0, the value is OFF.
C37_TurretLimits ==
    turretCall.called =>
        LET c == turretCall
        IN /\ Len(c.cmds) = 1
           /\ ~c.leftHall => c.cmds[1] >= 0
           /\ ~c.rightHall => c.cmds[1] <= 0
           /\ (~c.leftHall /\ c.axis < 0) => c.cmds[1] = OFF
           /\ (~c.rightHall /\ c.axis > 0) => c.cmds[1] = OFF
           /\ c.axis = 0 => c.cmds[1] = OFF

\* C37 witness: the left hall sensor read false, the right one true and the
\* axis was negative: the turret motor was commanded OFF.
C37_Witness ==
    /\ turretCall.called
    /\ ~turretCall.leftHall /\ turretCall.rightHall /\ turretCall.axis < 0
    /\ turretCall.cmds = <<OFF>>

\* the back-drive is among the calls a turn made
BackDriven == \E k \in 1..Len(turnCall.cmds) : turnCall.cmds[k].op = "AutonomousBackDriveTurn"

\* C38: a gyro turn always leaves its wait loop and returns; the loop is
\* left because the gyro reached destAngle, the safety timer exceeded
\* SAFETY_TIMER_MAX_VALUE or the robot left autonomous; both drive groups
\* are then set OFF and the safety timer is stopped; the turn returns false
\* exactly when the stopped timer reads more than SAFETY_TIMER_MAX_VALUE,
\* without back-drive, and otherwise resets the timer, back-drives and
\* returns true, also when it was interrupted by the robot leaving autonomous.
C38_GyroTurnReturns ==
    /\ (turnCall.pc \in {"Loop", "Body"}) ~> (turnCall.pc = "Off")
    /\ (turnCall.pc # "Returned") ~> (turnCall.pc = "Returned")
    /\ [][(turnCall.pc \in {"Loop", "Body"} /\ turnCall'.pc = "Off") =>
            \/ turnCall'.exitBy = "gyro" /\
                 (IF turnCall.dir = "LEFT_TURN" THEN turnCall'.gyro <= turnCall.destAngle
                                                ELSE turnCall'.gyro >= turnCall.destAngle)
            \/ turnCall'.exitBy = "timer" /\ turnCall.timer.t > SAFETY_TIMER_MAX_VALUE
            \/ turnCall'.exitBy = "mode" /\ ~turnCall.autonomous]_vars
    /\ [][(turnCall.pc # "Returned" /\ turnCall'.pc = "Returned") =>
            LET c == turnCall'
                n == Len(c.cmds)
            IN /\ c.timer = [running |-> FALSE, t |-> 0]
               /\ c.result <=> ~(c.stoppedAt > SAFETY_TIMER_MAX_VALUE)
               /\ c.stoppedAt = turnCall.timer.t
               /\ ~c.result =>
                     /\ n = 4
                     /\ c.cmds[3] = TurnCmd("Set", "left", OFF)
                     /\ c.cmds[4] = TurnCmd("Set", "right", OFF)
               /\ c.result =>
                     /\ n = 5
                     /\ c.cmds[3] = TurnCmd("Set", "left", OFF)
                     /\ c.cmds[4] = TurnCmd("Set", "right", OFF)
                     /\ c.cmds[5] = TurnCmd("AutonomousBackDriveTurn", c.dir, 0)]_vars

\* C38 witness: a left turn interrupted by the robot leaving autonomous,
\* with the heading still above destAngle and the timer below the maximum,
\* has set the groups OFF, back-driven and returned true.
C38_Witness ==
    /\ turnCall.called /\ turnCall.pc = "Returned" /\ turnCall.dir = "LEFT_TURN"
    /\ turnCall.exitBy = "mode" /\ ~turnCall.autonomous
    /\ turnCall.gyro > turnCall.destAngle
    /\ turnCall.stoppedAt <= SAFETY_TIMER_MAX_VALUE
    /\ turnCall.result /\ BackDriven
    /\ turnCall.timer = [running |-> FALSE, t |-> 0]
====
